---- MODULE Spec2Model ----
(***************************************************************************)
(* A model of RustDrone (src/src/drone.rs): one drone, its two input       *)
(* channels, its Peer Table of output ports, and the dispatch code          *)
(* handle_command / handle_packet with everything they call                 *)
(* (route_packet, return_nack, deliver_packet, handle_flood_request,        *)
(* return_flood_response).                                                  *)
(*                                                                         *)
(* The specifications share the dispatch operators:                         *)
(*   Spec     - every command and every packet of a rich packet universe    *)
(*              is offered to the running drone, one dispatch at a time;    *)
(*   LoopSpec - the event loop of run() over real queues (select_biased,    *)
(*              sender handles, disconnection), with a small packet set;    *)
(*   FairLoopSpec - LoopSpec with weak fairness on the drone's own steps;   *)
(*   NoControllerSpec - Spec for a drone whose telemetry channel is closed;  *)
(*   FloodSpec - Spec under FloodRequests of two floods only;                *)
(*   DrainSpec - the event loop in a test that ends: a finite script of      *)
(*              packets, commands and the release of the packet Senders;     *)
(*   FairDrainSpec - DrainSpec with weak fairness on both threads;           *)
(*   NetSpec  - several drones wired as in the tests of src/src/tests, each  *)
(*              dispatching from its own packet channel, and the test's      *)
(*              thread sending packets and waiting for the answers;          *)
(*   FairNetSpec - NetSpec with weak fairness on the threads.                *)
(***************************************************************************)
EXTENDS Integers, Sequences, FiniteSets, TLC

\* ------------------------------------------------------------------ bounds
\* Longest source route offered to the drone.
MaxHops == 3
\* Longest path_trace of an offered FloodRequest.
MaxTrace == 2
\* Capacity used for the command and packet queues in LoopSpec.
MaxQueue == 2

\* ------------------------------------------------------------ identifiers
\* The drone's own id (the tests provision drone 11).
SelfId == 11
\* Node ids that occur in routes: a client, this drone, a neighbour drone.
NodeIds == {1, 11, 12}
\* Ids the controller may connect this drone to.
Neighbours == NodeIds \ {SelfId}
\* Output ports: a port is the Sender<Packet> of one node's packet channel.
Ports == {"ch1", "ch12"}
\* The channel of controller_send: its Receiver<DroneEvent> is the controller's.
ControllerPort == "controller"
\* Drop rates, in hundredths (0.0, 0.5, 1.0).
PdrValues == {0, 50, 100}
\* Drop rates a SetPacketDropRate can carry: pdr is an f32, and 1.5 is one.
CommandPdrValues == PdrValues \cup {150}
\* Outcomes of gen_range(0.0..1.0), in hundredths: a value of [0, 1).
Samples == {0, 50, 99}
FloodIds == {7}
InitiatorIds == {1, 12}
SessionIds == {42}
FragmentIndexes == {3}

\* ---------------------------------------------------------------- helpers
Reverse(s) == [i \in 1..Len(s) |-> s[Len(s) + 1 - i]]

SeqsUpTo(S, n) == UNION {[1..k -> S] : k \in 0..n}

\* Mutant of MapRemove: the entry is left in the map.
MapRemoveNothing(f, k) == f

\* HashMap::remove
MapRemove(f, k) == [x \in (DOMAIN f) \ {k} |-> f[x]]

\* Mutant of MapInsert: an entry that exists is not overwritten.
MapInsertIfAbsent(f, k, v) == [x \in (DOMAIN f) \cup {k} |-> IF x \in DOMAIN f THEN f[x] ELSE v]

\* HashMap::insert
MapInsert(f, k, v) == [x \in (DOMAIN f) \cup {k} |-> IF x = k THEN v ELSE f[x]]

EmptyMap == [x \in {} |-> "none"]

\* ---------------------------------------------------------------- packets
\* NackType values; node is 0 for the kinds that carry no id.
Dropped == [kind |-> "Dropped", node |-> 0]
DestinationIsDrone == [kind |-> "DestinationIsDrone", node |-> 0]
ErrorInRouting(n) == [kind |-> "ErrorInRouting", node |-> n]
UnexpectedRecipient(n) == [kind |-> "UnexpectedRecipient", node |-> n]

NoNack == [kind |-> "None", node |-> 0]

\* A Packet: pack_type's variant and its fields, routing_header, session_id.
\* Fields a variant does not have hold a fixed filler (0, NoNack, <<>>);
\* initiator_id is a field of FloodRequest only.
MkPacket(tag, hops, hop_index, session_id, fragment_index, nack_type, flood_id, path_trace) ==
    [pack_type |-> tag,
     routing_header |-> [hops |-> hops, hop_index |-> hop_index],
     session_id |-> session_id,
     fragment_index |-> fragment_index,
     nack_type |-> nack_type,
     flood_id |-> flood_id,
     initiator_id |-> 0,
     path_trace |-> path_trace]

MsgFragment(hops, hop_index, session_id, fragment_index) ==
    MkPacket("MsgFragment", hops, hop_index, session_id, fragment_index, NoNack, 0, <<>>)

Ack(hops, hop_index, session_id, fragment_index) ==
    MkPacket("Ack", hops, hop_index, session_id, fragment_index, NoNack, 0, <<>>)

Nack(hops, hop_index, session_id, fragment_index, nack_type) ==
    MkPacket("Nack", hops, hop_index, session_id, fragment_index, nack_type, 0, <<>>)

FloodRequest(hops, hop_index, session_id, flood_id, initiator_id, path_trace) ==
    [MkPacket("FloodRequest", hops, hop_index, session_id, 0, NoNack, flood_id, path_trace)
        EXCEPT !.initiator_id = initiator_id]

FloodResponse(hops, hop_index, session_id, flood_id, path_trace) ==
    MkPacket("FloodResponse", hops, hop_index, session_id, 0, NoNack, flood_id, path_trace)

\* DroneEvent values.
\* Mutant of PacketSent: the event carries the packet as it was before the
\* router handled it, with its hop_index at 0.
PacketSentUnrouted(p) ==
    [kind |-> "PacketSent", packet |-> [p EXCEPT !.routing_header.hop_index = 0]]

PacketSent(p) == [kind |-> "PacketSent", packet |-> p]
PacketDropped(p) == [kind |-> "PacketDropped", packet |-> p]

\* Routing headers offered to the drone: every route of at most MaxHops ids,
\* with hop_index inside the route or one past its end.
OfferedHeaders ==
    UNION {{[hops |-> h, hop_index |-> i] : i \in 0..Len(h)} : h \in SeqsUpTo(NodeIds, MaxHops)}

TraceEntries == {<<1, "Client">>, <<11, "Drone">>, <<12, "Drone">>}

SomeTrace == <<<<1, "Client">>, <<12, "Drone">>>>

RoutedPackets ==
    UNION {
      {MsgFragment(h.hops, h.hop_index, s, f),
       Ack(h.hops, h.hop_index, s, f),
       Nack(h.hops, h.hop_index, s, f, Dropped),
       FloodResponse(h.hops, h.hop_index, s, 7, SomeTrace)}
      : h \in OfferedHeaders, s \in SessionIds, f \in FragmentIndexes}

FloodRequests ==
    UNION {{FloodRequest(<<>>, 0, s, fid, init, t) : init \in InitiatorIds}
             : s \in SessionIds, fid \in FloodIds, t \in SeqsUpTo(TraceEntries, MaxTrace)}

Packets == RoutedPackets \cup FloodRequests

\* Orders in which iterating the Peer Table (a HashMap) can visit its keys.
IterOrders ==
    {o \in [1..Cardinality(Neighbours) -> Neighbours] :
        \A i, j \in DOMAIN o : i # j => o[i] # o[j]}

\* ------------------------------------------------------- dispatch operators
\* The operators below thread a record x through the calls of one dispatch:
\*   x.packet_send, x.seen_flood_requests  the drone's fields the calls mutate
\*   x.sent    the packets enqueued on output ports, in order, as [port, packet]
\*   x.events  the DroneEvents handed to controller_send.send, in order
\*   x.lost    those of them for which send returned Err (the controller's
\*             receiver is gone): the error is logged
\*   x.panic   TRUE once a call has panicked (the thread unwinds: nothing after it runs)
\*   x.nacks   the calls of return_nack that built a Nack, in order, as
\*             [packet, nack_type, nack]: the arguments and the Nack built
\* and read a record e of what the dispatch does not change:
\*   e.id, e.pdr  the drone's id and drop rate
\*   e.dead       the channels whose receiver has been dropped
\*   e.r          the value gen_range(0.0..1.0) yields
\*   e.ord        the order in which the Peer Table is iterated

\* hops.get(hop_index)
HasCurrentHop(packet) == packet.routing_header.hop_index < Len(packet.routing_header.hops)

get_current_hop(packet) == packet.routing_header.hops[packet.routing_header.hop_index + 1]

\* hops.get(hop_index + 1)
HasNextHop(packet) == packet.routing_header.hop_index + 1 < Len(packet.routing_header.hops)

get_next_hop(packet) == packet.routing_header.hops[packet.routing_header.hop_index + 2]

\* hops.split_at(hop_index + 1) panics when hop_index + 1 > hops.len()
SplitAtPanics(packet) == packet.routing_header.hop_index + 1 > Len(packet.routing_header.hops)

\* Mutant of NackHops: the prefix is not reversed.
NackHopsForward(packet) ==
    SubSeq(packet.routing_header.hops, 1, packet.routing_header.hop_index + 1)

\* hops.split_at(hop_index + 1).0.iter().rev()
NackHops(packet) ==
    Reverse(SubSeq(packet.routing_header.hops, 1, packet.routing_header.hop_index + 1))

\* Mutant of NackFor: fragment_index is not copied from a Fragment.
NackForNoIndex(packet, nack_type) ==
    Nack(NackHops(packet), 0, packet.session_id, 0, nack_type)

\* Mutant of NackFor: session_id is not echoed.
NackForNoSession(packet, nack_type) ==
    Nack(NackHops(packet), 0, 0,
         IF packet.pack_type = "MsgFragment" THEN packet.fragment_index ELSE 0,
         nack_type)

\* The Nack return_nack builds for packet.
NackFor(packet, nack_type) ==
    Nack(NackHops(packet), 0, packet.session_id,
         IF packet.pack_type = "MsgFragment" THEN packet.fragment_index ELSE 0,
         nack_type)

\* Mutant of IncrementHop: hop_index is left as received.
KeepHop(packet) == packet

IncrementHop(packet) ==
    [packet EXCEPT !.routing_header.hop_index = @ + 1]

\* Mutant of Forwards: the comparison with pdr is the wrong way round.
ForwardsFlipped(packet, e) == packet.pack_type # "MsgFragment" \/ e.r < e.pdr

\* Mutant of Forwards: every packet type is subject to the drop rate.
ForwardsAnyType(packet, e) == e.r >= e.pdr

\* The drop decision of route_packet: TRUE when the packet is forwarded.
Forwards(packet, e) == packet.pack_type # "MsgFragment" \/ e.r >= e.pdr

\* Mutant of Emit: the result of send is unwrapped, so that Err panics.
EmitUnwrap(x, e, event) ==
    IF ControllerPort \in e.dead
    THEN [x EXCEPT !.panic = TRUE]
    ELSE [x EXCEPT !.events = Append(@, event)]

\* controller_send.send(event), and the error! of its Err branch.
Emit(x, e, event) ==
    IF ControllerPort \in e.dead
    THEN [x EXCEPT !.events = Append(@, event), !.lost = Append(@, event)]
    ELSE [x EXCEPT !.events = Append(@, event)]

RECURSIVE route_packet(_, _, _)
RECURSIVE return_nack(_, _, _, _)
RECURSIVE deliver_packet(_, _, _, _, _)

deliver_packet(x, e, channel, sender_id, packet) ==
    IF x.panic THEN x
    ELSE IF channel \in e.dead
    THEN \* TrySendError::Disconnected
         LET x1 == [x EXCEPT !.packet_send = MapRemove(@, sender_id)]
             x2 == return_nack(x1, e, packet, ErrorInRouting(sender_id))
         IN  IF x2.panic THEN x2 ELSE Emit(x2, e, PacketDropped(packet))
    ELSE Emit([x EXCEPT !.sent = Append(@, [port |-> channel, packet |-> packet])],
              e, PacketSent(packet))

\* Mutant of route_packet: a Nack without a next hop is handed to a peer.
RouteNackToSomePeer(x, e, packet) ==
    IF x.panic THEN x
    ELSE IF ~HasNextHop(packet)
    THEN IF packet.pack_type # "Nack"
         THEN return_nack(x, e, packet, DestinationIsDrone)
         ELSE IF DOMAIN x.packet_send = {}
         THEN x
         ELSE LET n == CHOOSE k \in DOMAIN x.packet_send : TRUE
              IN  deliver_packet(x, e, x.packet_send[n], n, packet)
    ELSE LET next_hop == get_next_hop(packet) IN
         IF next_hop \notin DOMAIN x.packet_send
         THEN return_nack(x, e, packet, ErrorInRouting(next_hop))
         ELSE IF Forwards(packet, e)
         THEN deliver_packet(x, e, x.packet_send[next_hop], next_hop, IncrementHop(packet))
         ELSE return_nack(Emit(x, e, PacketDropped(packet)), e, packet, Dropped)

route_packet(x, e, packet) ==
    IF x.panic THEN x
    ELSE IF ~HasNextHop(packet)
    THEN IF packet.pack_type # "Nack"
         THEN return_nack(x, e, packet, DestinationIsDrone)
         ELSE x
    ELSE LET next_hop == get_next_hop(packet) IN
         IF next_hop \notin DOMAIN x.packet_send
         THEN return_nack(x, e, packet, ErrorInRouting(next_hop))
         ELSE IF Forwards(packet, e)
         THEN deliver_packet(x, e, x.packet_send[next_hop], next_hop, IncrementHop(packet))
         ELSE return_nack(Emit(x, e, PacketDropped(packet)), e, packet, Dropped)

return_nack(x, e, packet, nack_type) ==
    IF x.panic THEN x
    ELSE IF SplitAtPanics(packet)
    THEN [x EXCEPT !.panic = TRUE]
    ELSE route_packet([x EXCEPT !.nacks = Append(@, [packet |-> packet,
                                                     nack_type |-> nack_type,
                                                     nack |-> NackFor(packet, nack_type)])],
                      e, NackFor(packet, nack_type))

\* Mutant of TraceHops: the trace is not reversed.
TraceHopsForward(path_trace) == [i \in 1..Len(path_trace) |-> path_trace[i][1]]

\* path_trace.iter().rev().map(|(id, _)| *id)
TraceHops(path_trace) == Reverse([i \in 1..Len(path_trace) |-> path_trace[i][1]])

\* Mutant of return_flood_response: no response is made.
NoFloodResponse(x, e, flood_request, neighbour, session_id) == x

\* Mutant of return_flood_response: the response starts at hop_index 0.
FloodResponseAtZero(x, e, flood_request, neighbour, session_id) ==
    IF x.panic THEN x
    ELSE IF neighbour \notin DOMAIN x.packet_send
    THEN x
    ELSE deliver_packet(x, e, x.packet_send[neighbour], neighbour,
             FloodResponse(TraceHops(flood_request.path_trace), 0, session_id,
                           flood_request.flood_id, flood_request.path_trace))

return_flood_response(x, e, flood_request, neighbour, session_id) ==
    IF x.panic THEN x
    ELSE IF neighbour \notin DOMAIN x.packet_send
    THEN x
    ELSE deliver_packet(x, e, x.packet_send[neighbour], neighbour,
             FloodResponse(TraceHops(flood_request.path_trace), 1, session_id,
                           flood_request.flood_id, flood_request.path_trace))

\* Mutant of FanOut: the neighbour the request came from is not skipped.
RECURSIVE FanOutAll(_, _, _, _, _, _)
FanOutAll(x, e, keys, table, sender_id, flood_packet) ==
    IF keys = <<>> THEN x
    ELSE FanOutAll(deliver_packet(x, e, table[Head(keys)], Head(keys), flood_packet),
                   e, Tail(keys), table, sender_id, flood_packet)

\* The body of the fan-out loop of handle_flood_request, over the keys still to
\* visit of the cloned Peer Table.
RECURSIVE FanOut(_, _, _, _, _, _)
FanOut(x, e, keys, table, sender_id, flood_packet) ==
    IF keys = <<>> THEN x
    ELSE LET neighbour == Head(keys)
             x1 == IF neighbour = sender_id
                   THEN x
                   ELSE deliver_packet(x, e, table[neighbour], neighbour, flood_packet)
         IN  FanOut(x1, e, Tail(keys), table, sender_id, flood_packet)

\* Mutant of FloodCopy: the copy names this drone as the initiator.
FloodCopyOwnInitiator(e, flood_request, session_id) ==
    FloodRequest(<<>>, 0, session_id, flood_request.flood_id, e.id, flood_request.path_trace)

\* The Packet built at lines 437-444: flood_request.clone() under a fresh,
\* empty routing header and the session_id of the received packet.
FloodCopy(e, flood_request, session_id) ==
    FloodRequest(<<>>, 0, session_id, flood_request.flood_id, flood_request.initiator_id,
                 flood_request.path_trace)

\* The keys of table in the iteration order ord.
KeysInOrder(table, ord) == SelectSeq(ord, LAMBDA k : k \in DOMAIN table)

\* Mutant of RecordFlood: nothing is recorded.
RecordFloodNever(seen, flood_id) == seen

\* Mutant of RecordFlood: the set keeps the latest flood_id only.
RecordFloodAlone(seen, flood_id) == {flood_id}

\* self.seen_flood_requests.insert(flood_id)
RecordFlood(seen, flood_id) == seen \cup {flood_id}

handle_flood_request(x, e, packet) ==
    IF packet.path_trace = <<>>
    THEN x
    ELSE LET sender_id == packet.path_trace[Len(packet.path_trace)][1]
             flood_request == [packet EXCEPT !.path_trace = Append(@, <<e.id, "Drone">>)]
         IN  IF packet.flood_id \in x.seen_flood_requests
             THEN return_flood_response(x, e, flood_request, sender_id, packet.session_id)
             ELSE LET x1 == [x EXCEPT !.seen_flood_requests = RecordFlood(@, packet.flood_id)]
                  IN  IF Cardinality(DOMAIN x1.packet_send) > 1
                      THEN FanOut(x1, e, KeysInOrder(x1.packet_send, e.ord), x1.packet_send,
                                  sender_id,
                                  FloodCopy(e, flood_request, packet.session_id))
                      ELSE return_flood_response(x1, e, flood_request, sender_id,
                                                 packet.session_id)

\* Mutant of DispatchByType: a packet without a current hop is answered with
\* a Nack.
DispatchNacksNoHop(x, e, packet) ==
    IF x.panic THEN x
    ELSE IF packet.pack_type = "FloodRequest"
    THEN handle_flood_request(x, e, packet)
    ELSE IF ~HasCurrentHop(packet)
    THEN return_nack(x, e, packet, UnexpectedRecipient(e.id))
    ELSE IF get_current_hop(packet) = e.id
    THEN route_packet(x, e, packet)
    ELSE return_nack(x, e,
             [packet EXCEPT !.routing_header.hops[packet.routing_header.hop_index + 1] = e.id],
             UnexpectedRecipient(e.id))

\* Mutant of DispatchByType: hops[hop_index] is not compared with the drone's id.
DispatchUnchecked(x, e, packet) ==
    IF x.panic THEN x
    ELSE IF packet.pack_type = "FloodRequest"
    THEN handle_flood_request(x, e, packet)
    ELSE IF ~HasCurrentHop(packet)
    THEN x
    ELSE route_packet(x, e, packet)

\* The second match of handle_packet (lines 126-155).
DispatchByType(x, e, packet) ==
    IF x.panic THEN x
    ELSE IF packet.pack_type = "FloodRequest"
    THEN handle_flood_request(x, e, packet)
    ELSE IF ~HasCurrentHop(packet)
    THEN x
    ELSE IF get_current_hop(packet) = e.id
    THEN route_packet(x, e, packet)
    ELSE return_nack(x, e,
             [packet EXCEPT !.routing_header.hops[packet.routing_header.hop_index + 1] = e.id],
             UnexpectedRecipient(e.id))

\* Mutant of CrashingReturns: a FloodRequest is not returned on.
CrashingNeverReturns(packet) == FALSE

\* The first match of handle_packet (lines 115-124), taken while Crashing:
\* TRUE when handle_packet returns there.
CrashingReturns(packet) == packet.pack_type = "FloodRequest"

\* Mutant of CrashingNack: every packet type is answered with the Nack.
CrashingNackAll(x, e, packet) == return_nack(x, e, packet, ErrorInRouting(e.id))

\* The first match of handle_packet while Crashing, for the packets it does not
\* return on: a Nack for every type but FloodResponse, Nack and Ack.
CrashingNack(x, e, packet) ==
    IF packet.pack_type \in {"FloodResponse", "Nack", "Ack"}
    THEN x
    ELSE return_nack(x, e, packet, ErrorInRouting(e.id))

handle_packet(x, e, state, packet) ==
    IF state = "Crashing"
    THEN IF CrashingReturns(packet)
         THEN x
         ELSE DispatchByType(CrashingNack(x, e, packet), e, packet)
    ELSE DispatchByType(x, e, packet)

\* --------------------------------------------------------------- commands
NoPort == "none"

AddSender(node_id, sender) == [cmd |-> "AddSender", node |-> node_id, port |-> sender, pdr |-> 0]
RemoveSender(node_id) == [cmd |-> "RemoveSender", node |-> node_id, port |-> NoPort, pdr |-> 0]
SetPacketDropRate(p) == [cmd |-> "SetPacketDropRate", node |-> 0, port |-> NoPort, pdr |-> p]
Crash == [cmd |-> "Crash", node |-> 0, port |-> NoPort, pdr |-> 0]

\* The DroneCommands the controller can send.
Commands ==
    {AddSender(n, c) : n \in Neighbours, c \in Ports}
      \cup {RemoveSender(n) : n \in Neighbours}
      \cup {SetPacketDropRate(p) : p \in CommandPdrValues}
      \cup {Crash}

\* ------------------------------------------------------------------ state
VARIABLES
    pdr,                  \* RustDrone.pdr, in hundredths
    packet_send,          \* RustDrone.packet_send: the Peer Table, NodeId -> port
    seen_flood_requests,  \* RustDrone.seen_flood_requests
    state,                \* RustDrone.state: "Created", "Running", "Crashing"
    pc,                   \* where run() is: "init", "loop" (first loop),
                          \* "crash_loop" (second loop), "done" (returned), "panic"
    dead_ports,           \* the channels the drone sends on whose Receiver has been dropped
    command_queue,        \* the messages in controller_recv
    packet_queue,         \* the messages in packet_recv
    cmd_senders,          \* TRUE while some Sender<DroneCommand> of controller_recv lives
    pkt_senders,          \* TRUE while some Sender<Packet> of packet_recv lives
    last,                 \* the drone's latest step: what it received and the fields before it
    sent,                 \* the packets that step enqueued on output ports, in order
    events,               \* the DroneEvents that step handed to controller_send, in order
    scenario,             \* NetSpec: the test being run (topology, drop rates)
    fleet,                \* NetSpec: the drones provisioned, NodeId -> their fields
    inbox,                \* NetSpec: the messages in each node's packet channel
    to_send               \* NetSpec: what the test's thread still has to do

vars == <<pdr, packet_send, seen_flood_requests, state, pc, dead_ports, command_queue,
          packet_queue, cmd_senders, pkt_senders, last, sent, events,
          scenario, fleet, inbox, to_send>>

drone == <<pdr, packet_send, seen_flood_requests, state>>
channels == <<command_queue, packet_queue, cmd_senders, pkt_senders>>
network == <<scenario, fleet, inbox, to_send>>

NoPacket == MkPacket("None", <<>>, 0, 0, 0, NoNack, 0, <<>>)
NoCommand == [cmd |-> "None", node |-> 0, port |-> NoPort, pdr |-> 0]

\* What `last` holds of a step: op is "none" when the environment acted since;
\* nacks are the calls of return_nack the step made, lost the events it could
\* not hand to the controller.
Step(op, packet, command) ==
    [op |-> op, packet |-> packet, command |-> command,
     state |-> state, pdr |-> pdr, packet_send |-> packet_send,
     seen_flood_requests |-> seen_flood_requests, nacks |-> <<>>, lost |-> <<>>,
     id |-> SelfId]

NoStep ==
    [op |-> "none", packet |-> NoPacket, command |-> NoCommand,
     state |-> "Created", pdr |-> 0, packet_send |-> EmptyMap,
     seen_flood_requests |-> {}, nacks |-> <<>>, lost |-> <<>>, id |-> SelfId]

\* No network: the single drone of Spec and LoopSpec is provisioned alone.
NoScenario == [name |-> "none"]

\* RustDrone::new, with the channels of provision_drones_from_config.
Init ==
    /\ pdr \in PdrValues
    /\ packet_send = EmptyMap
    /\ seen_flood_requests = {}
    /\ state = "Created"
    /\ pc = "init"
    /\ dead_ports = {}
    /\ command_queue = <<>>
    /\ packet_queue = <<>>
    /\ cmd_senders = TRUE
    /\ pkt_senders = TRUE
    /\ last = NoStep
    /\ sent = <<>>
    /\ events = <<>>
    /\ scenario = NoScenario
    /\ fleet = <<>>
    /\ inbox = <<>>
    /\ to_send = <<>>

\* ------------------------------------------------------------ drone steps
\* run(), lines 60-61.
Start ==
    /\ pc = "init"
    /\ state' = "Running"
    /\ pc' = "loop"
    /\ last' = Step("start", NoPacket, NoCommand)
    /\ sent' = <<>>
    /\ events' = <<>>
    /\ UNCHANGED <<pdr, packet_send, seen_flood_requests, dead_ports, network>>

\* Mutant of HandleCommand: a drop rate above 1.0 is clamped to 1.0.
HandleCommandClamped(command) ==
    /\ packet_send' =
         CASE command.cmd = "AddSender" -> MapInsert(packet_send, command.node, command.port)
           [] command.cmd = "RemoveSender" -> MapRemove(packet_send, command.node)
           [] OTHER -> packet_send
    /\ pdr' = IF command.cmd = "SetPacketDropRate"
              THEN (IF command.pdr > 100 THEN 100 ELSE command.pdr)
              ELSE pdr
    /\ state' = IF command.cmd = "Crash" THEN "Crashing" ELSE state
    /\ pc' = IF command.cmd = "Crash" THEN "crash_loop" ELSE pc
    /\ last' = Step("command", NoPacket, command)
    /\ sent' = <<>>
    /\ events' = <<>>
    /\ UNCHANGED <<seen_flood_requests, dead_ports, network>>

\* handle_command together with the match on its result in run() (lines 66-71):
\* Quit breaks out of the first loop, and state is then Crashing.
HandleCommand(command) ==
    /\ packet_send' =
         CASE command.cmd = "AddSender" -> MapInsert(packet_send, command.node, command.port)
           [] command.cmd = "RemoveSender" -> MapRemove(packet_send, command.node)
           [] OTHER -> packet_send
    /\ pdr' = IF command.cmd = "SetPacketDropRate" THEN command.pdr ELSE pdr
    /\ state' = IF command.cmd = "Crash" THEN "Crashing" ELSE state
    /\ pc' = IF command.cmd = "Crash" THEN "crash_loop" ELSE pc
    /\ last' = Step("command", NoPacket, command)
    /\ sent' = <<>>
    /\ events' = <<>>
    /\ UNCHANGED <<seen_flood_requests, dead_ports, network>>

\* The result of handle_packet(packet) in the current state.
Handled(packet, r, ord) ==
    handle_packet([packet_send |-> packet_send,
                   seen_flood_requests |-> seen_flood_requests,
                   sent |-> <<>>, events |-> <<>>, panic |-> FALSE, nacks |-> <<>>,
                   lost |-> <<>>],
                  [id |-> SelfId, pdr |-> pdr, dead |-> dead_ports, r |-> r, ord |-> ord],
                  state, packet)

\* handle_packet as called from either loop of run(); a panic ends the thread.
HandlePacket(packet, r, ord) ==
    \E x \in {Handled(packet, r, ord)} :
    /\ packet_send' = x.packet_send
    /\ seen_flood_requests' = x.seen_flood_requests
    /\ sent' = x.sent
    /\ events' = x.events
    /\ pc' = IF x.panic THEN "panic" ELSE pc
    /\ last' = [Step("packet", packet, NoCommand) EXCEPT !.nacks = x.nacks, !.lost = x.lost]
    /\ UNCHANGED <<pdr, state, dead_ports, network>>

\* Mutant of PacketRecvError: the break is followed by a fresh start of run().
PacketRecvErrorRestarts ==
    /\ pc' = "loop"
    /\ state' = "Running"
    /\ last' = Step("recv_error", NoPacket, NoCommand)
    /\ sent' = <<>>
    /\ events' = <<>>
    /\ UNCHANGED <<pdr, packet_send, seen_flood_requests, dead_ports, network>>

\* recv(packet_recv) yields Err: break (line 79 in the first loop, line 95 in the
\* second); after the first loop the second is entered only when Crashing.
PacketRecvError ==
    /\ pc' = "done"
    /\ last' = Step("recv_error", NoPacket, NoCommand)
    /\ sent' = <<>>
    /\ events' = <<>>
    /\ UNCHANGED <<drone, dead_ports, network>>

\* ------------------------------------------------------- environment steps
Forget ==
    /\ last' = NoStep
    /\ sent' = <<>>
    /\ events' = <<>>
    /\ UNCHANGED network

\* The receiver of an output port is dropped (its node stopped).
PortDisconnect(port) ==
    /\ last.op = "none"
    /\ port \notin dead_ports
    /\ dead_ports' = dead_ports \cup {port}
    /\ Forget
    /\ UNCHANGED <<drone, pc, channels>>

\* The peers and the controller take what the last step sent.
Drain ==
    /\ last.op # "none"
    /\ Forget
    /\ UNCHANGED <<drone, pc, dead_ports, channels>>

\* --------------------------------------------------------------- Spec
\* The random sample is drawn for fragments only (line 274-275), and the Peer
\* Table is iterated for flood requests only (line 423).
SamplesFor(packet) == IF packet.pack_type = "MsgFragment" THEN Samples ELSE {0}

OrdersFor(packet) ==
    IF packet.pack_type = "FloodRequest" THEN IterOrders ELSE {<<>>}

\* One dispatch at a time: a message is handed to the running drone as soon as
\* it is sent, so both queues stay empty, and the next one is offered after the
\* peers have drained the ports.
Drained == last.op = "none"

DispatchCommand ==
    /\ Drained
    /\ pc = "loop"
    /\ \E command \in Commands : HandleCommand(command)
    /\ UNCHANGED channels

DispatchPacket ==
    /\ Drained
    /\ pc \in {"loop", "crash_loop"}
    /\ \E packet \in Packets :
         \E r \in SamplesFor(packet), ord \in OrdersFor(packet) : HandlePacket(packet, r, ord)
    /\ UNCHANGED channels

DispatchRecvError ==
    /\ Drained
    /\ pc \in {"loop", "crash_loop"}
    /\ PacketRecvError
    /\ UNCHANGED channels

Next ==
    \/ Drained /\ Start /\ UNCHANGED channels
    \/ DispatchCommand
    \/ DispatchPacket
    \/ DispatchRecvError
    \/ \E port \in Ports : PortDisconnect(port)
    \/ Drain

Spec == Init /\ [][Next]_vars

\* ------------------------------------------------------ NoControllerSpec
\* The drone of a test that drops the Receiver<DroneEvent> it is handed by
\* provision_drones_from_config (let (_, env) = ...): the telemetry channel
\* is closed from the start, and every send on controller_send yields Err.
NoControllerInit ==
    /\ pdr \in PdrValues
    /\ packet_send = EmptyMap
    /\ seen_flood_requests = {}
    /\ state = "Created"
    /\ pc = "init"
    /\ dead_ports = {ControllerPort}
    /\ command_queue = <<>>
    /\ packet_queue = <<>>
    /\ cmd_senders = TRUE
    /\ pkt_senders = TRUE
    /\ last = NoStep
    /\ sent = <<>>
    /\ events = <<>>
    /\ scenario = NoScenario
    /\ fleet = <<>>
    /\ inbox = <<>>
    /\ to_send = <<>>

NoControllerSpec == NoControllerInit /\ [][Next]_vars

\* ------------------------------------------------------------ FloodSpec
\* The drone of Spec under flood traffic only: FloodRequests of two floods,
\* arriving from either neighbour in any number and order, between commands
\* and disconnections.
FloodTraffic ==
    {FloodRequest(<<>>, 0, 42, fid, 1, t) :
        fid \in {7, 8},
        t \in {<<<<1, "Client">>>>, <<<<12, "Drone">>>>, <<<<1, "Client">>, <<12, "Drone">>>>}}

DispatchFlood ==
    /\ Drained
    /\ pc \in {"loop", "crash_loop"}
    /\ \E packet \in FloodTraffic, ord \in IterOrders : HandlePacket(packet, 0, ord)
    /\ UNCHANGED channels

FloodNext ==
    \/ Drained /\ Start /\ UNCHANGED channels
    \/ DispatchCommand
    \/ DispatchFlood
    \/ DispatchRecvError
    \/ \E port \in Ports : PortDisconnect(port)
    \/ Drain

FloodSpec == Init /\ [][FloodNext]_vars

\* ------------------------------------------------------------- LoopSpec
\* The event loop of run() over its two channels.  The messages sent are few,
\* so that the queues can hold several.
LoopCommands == {Crash, AddSender(12, "ch12"), RemoveSender(12), SetPacketDropRate(100)}

LoopPackets ==
    {MsgFragment(<<1, 11, 12>>, 1, 42, 3),
     Nack(<<12, 11, 1>>, 1, 42, 3, Dropped),
     FloodRequest(<<>>, 0, 42, 7, 1, <<<<1, "Client">>>>)}

\* send_command_to_drone
SendCommand(command) ==
    /\ cmd_senders
    /\ Len(command_queue) < MaxQueue
    /\ command_queue' = Append(command_queue, command)
    /\ Forget
    /\ UNCHANGED <<drone, pc, dead_ports, packet_queue, cmd_senders, pkt_senders>>

\* send_packet_to_drone, or a peer's deliver_packet
SendPacket(packet) ==
    /\ pkt_senders
    /\ Len(packet_queue) < MaxQueue
    /\ packet_queue' = Append(packet_queue, packet)
    /\ Forget
    /\ UNCHANGED <<drone, pc, dead_ports, command_queue, cmd_senders, pkt_senders>>

\* Every Sender<DroneCommand> of controller_recv is dropped.
DropCommandSenders ==
    /\ cmd_senders
    /\ cmd_senders' = FALSE
    /\ Forget
    /\ UNCHANGED <<drone, pc, dead_ports, command_queue, packet_queue, pkt_senders>>

\* Every Sender<Packet> of packet_recv is dropped.
DropPacketSenders ==
    /\ pkt_senders
    /\ pkt_senders' = FALSE
    /\ Forget
    /\ UNCHANGED <<drone, pc, dead_ports, command_queue, packet_queue, cmd_senders>>

\* A recv operation of a select is ready when its channel holds a message or
\* is disconnected (it then yields Err once the channel is empty).
\* Mutant of CommandReady: the select gives the command input no priority.
CommandNeverFirst == FALSE

CommandReady == command_queue # <<>> \/ ~cmd_senders

\* Mutant of LoopRecvCommand: the second loop listens for commands too.
LoopRecvCommandAnyPhase ==
    /\ pc \in {"loop", "crash_loop"}
    /\ command_queue # <<>>
    /\ HandleCommand(Head(command_queue))
    /\ command_queue' = Tail(command_queue)
    /\ UNCHANGED <<packet_queue, cmd_senders, pkt_senders>>

\* select_biased!, first arm, Ok(command) (lines 65-71).
LoopRecvCommand ==
    /\ pc = "loop"
    /\ command_queue # <<>>
    /\ HandleCommand(Head(command_queue))
    /\ command_queue' = Tail(command_queue)
    /\ UNCHANGED <<packet_queue, cmd_senders, pkt_senders>>

\* select_biased!, first arm, Err: nothing is done and the loop goes round.
LoopRecvCommandError ==
    /\ pc = "loop"
    /\ command_queue = <<>>
    /\ ~cmd_senders
    /\ last' = Step("command_error", NoPacket, NoCommand)
    /\ sent' = <<>>
    /\ events' = <<>>
    /\ UNCHANGED <<drone, pc, dead_ports, channels, network>>

\* Mutant of LoopRecvPacket: select! in place of select_biased!, either ready
\* arm may be taken.
LoopRecvPacketUnbiased ==
    /\ pc = "loop"
    /\ packet_queue # <<>>
    /\ \E r \in SamplesFor(Head(packet_queue)), ord \in OrdersFor(Head(packet_queue)) :
         HandlePacket(Head(packet_queue), r, ord)
    /\ packet_queue' = Tail(packet_queue)
    /\ UNCHANGED <<command_queue, cmd_senders, pkt_senders>>

\* select_biased!, second arm, Ok(packet) (lines 73-76): taken when the first
\* arm is not ready.
LoopRecvPacket ==
    /\ pc = "loop"
    /\ ~CommandReady
    /\ packet_queue # <<>>
    /\ \E r \in SamplesFor(Head(packet_queue)), ord \in OrdersFor(Head(packet_queue)) :
         HandlePacket(Head(packet_queue), r, ord)
    /\ packet_queue' = Tail(packet_queue)
    /\ UNCHANGED <<command_queue, cmd_senders, pkt_senders>>

\* select_biased!, second arm, Err (lines 77-80): break with state Running, so
\* the second loop is skipped and run() returns.
LoopRecvPacketError ==
    /\ pc = "loop"
    /\ ~CommandReady
    /\ packet_queue = <<>>
    /\ ~pkt_senders
    /\ PacketRecvError
    /\ UNCHANGED channels

\* select! of the second loop, Ok(packet) (lines 89-92).
CrashRecvPacket ==
    /\ pc = "crash_loop"
    /\ packet_queue # <<>>
    /\ \E r \in SamplesFor(Head(packet_queue)), ord \in OrdersFor(Head(packet_queue)) :
         HandlePacket(Head(packet_queue), r, ord)
    /\ packet_queue' = Tail(packet_queue)
    /\ UNCHANGED <<command_queue, cmd_senders, pkt_senders>>

\* Mutant of CrashRecvPacketError: the loop is left as soon as no sender
\* remains, with the messages still queued.
CrashRecvPacketErrorEarly ==
    /\ pc = "crash_loop"
    /\ ~pkt_senders
    /\ PacketRecvError
    /\ UNCHANGED channels

\* select! of the second loop, Err (lines 93-96): run() returns.
CrashRecvPacketError ==
    /\ pc = "crash_loop"
    /\ packet_queue = <<>>
    /\ ~pkt_senders
    /\ PacketRecvError
    /\ UNCHANGED channels

\* The steps of the drone's thread.
DroneStep ==
    \/ Start /\ UNCHANGED channels
    \/ LoopRecvCommand
    \/ LoopRecvCommandError
    \/ LoopRecvPacket
    \/ LoopRecvPacketError
    \/ CrashRecvPacket
    \/ CrashRecvPacketError

EnvStep ==
    \/ \E command \in LoopCommands : SendCommand(command)
    \/ \E packet \in LoopPackets : SendPacket(packet)
    \/ DropCommandSenders
    \/ DropPacketSenders
    \/ PortDisconnect("ch12")

LoopInit == Init /\ pdr = 0

LoopNext == DroneStep \/ EnvStep

LoopSpec == LoopInit /\ [][LoopNext]_vars

\* The drone's thread is scheduled: a step of it that stays possible is taken.
FairLoopSpec == LoopSpec /\ WF_vars(DroneStep)

\* ------------------------------------------------------------ DrainSpec
\* The event loop of run() in a test that ends: the test's thread sends the
\* drone some packets and commands, each once and in any order, and may then
\* release the Senders of the drone's packet input (every peer has stopped and
\* the test has dropped its own handle).  What it still has to do is to_send.
ScriptPacket(packet) == [kind |-> "packet", packet |-> packet, command |-> NoCommand]
ScriptCommand(command) == [kind |-> "command", packet |-> NoPacket, command |-> command]
ScriptRelease == [kind |-> "release", packet |-> NoPacket, command |-> NoCommand]

ScriptOps ==
    {ScriptPacket(packet) : packet \in LoopPackets}
      \cup {ScriptCommand(AddSender(12, "ch12")), ScriptCommand(Crash), ScriptRelease}

\* The scripts: no operation twice, and no packet once the Senders are released.
Scripts ==
    {script \in UNION {[1..k -> ScriptOps] : k \in 0..Cardinality(ScriptOps)} :
        /\ \A i, j \in DOMAIN script : i # j => script[i] # script[j]
        /\ \A i, j \in DOMAIN script :
             (script[i] = ScriptRelease /\ script[j].kind = "packet") => j < i}

DrainInit ==
    /\ pdr = 0
    /\ packet_send = EmptyMap
    /\ seen_flood_requests = {}
    /\ state = "Created"
    /\ pc = "init"
    /\ dead_ports = {}
    /\ command_queue = <<>>
    /\ packet_queue = <<>>
    /\ cmd_senders = TRUE
    /\ pkt_senders = TRUE
    /\ last = NoStep
    /\ sent = <<>>
    /\ events = <<>>
    /\ scenario = NoScenario
    /\ fleet = <<>>
    /\ inbox = <<>>
    /\ to_send \in Scripts

\* send_packet_to_drone, send_command_to_drone, or the drop of the Senders.
ScriptStep ==
    /\ to_send # <<>>
    /\ to_send' = Tail(to_send)
    /\ packet_queue' = IF Head(to_send).kind = "packet"
                       THEN Append(packet_queue, Head(to_send).packet)
                       ELSE packet_queue
    /\ command_queue' = IF Head(to_send).kind = "command"
                        THEN Append(command_queue, Head(to_send).command)
                        ELSE command_queue
    /\ pkt_senders' = IF Head(to_send).kind = "release" THEN FALSE ELSE pkt_senders
    /\ last' = NoStep
    /\ sent' = <<>>
    /\ events' = <<>>
    /\ UNCHANGED <<drone, pc, dead_ports, cmd_senders, scenario, fleet, inbox>>

DrainNext ==
    \/ ScriptStep
    \/ Start /\ UNCHANGED channels
    \/ LoopRecvCommand
    \/ LoopRecvPacket
    \/ LoopRecvPacketError
    \/ CrashRecvPacket
    \/ CrashRecvPacketError

DrainSpec == DrainInit /\ [][DrainNext]_vars

\* The drone's thread is scheduled, and so is the test's.
FairDrainSpec == DrainSpec /\ WF_vars(DroneStep) /\ WF_vars(ScriptStep)

\* -------------------------------------------------------------- NetSpec
\* The networks of the tests: drones provisioned by
\* provision_drones_from_config, wired to each other by its AddSender
\* commands, and the channels of a client and a server registered on them by
\* the test.  The test sends those commands before it sends any packet, and
\* select_biased! serves the command input first, so every drone has its Peer
\* Table when it receives its first packet: the network starts wired.  The
\* Sender of a node's packet channel is named by the node's id.
Client == 1
Server == 21
Drones == {11, 12, 13, 14}

Link(a, b) == {a, b}

\* 11 - 12, as in return_flood_response_with_one_neighbour.
Chain == {Link(11, 12)}

\* 11 linked to 12 and 13, both linked to 14 (multiple_flood_requests_encounter).
Diamond == {Link(11, 12), Link(11, 13), Link(12, 14), Link(13, 14)}

\* The drones of a topology; drone 11 is always provisioned.
NodesOf(links) == {11} \cup UNION links

\* The nodes that can be reached from the nodes S over links.
RECURSIVE Reach(_, _)
Reach(links, S) ==
    LET T == S \cup {n \in UNION links : \E l \in links : n \in l /\ l \cap S # {}}
    IN  IF T = S THEN S ELSE Reach(links, T)

\* Every connected topology over the drones (generate_random_config builds
\* such topologies, with symmetric neighbour lists); the diamond is one of them.
FloodTopologies ==
    {links \in SUBSET {Link(a, b) : a, b \in Drones} :
        /\ \A l \in links : Cardinality(l) = 2
        /\ Reach(links, {11}) = NodesOf(links)}

\* What the test's thread does, in order.
Send(to, packet) == [kind |-> "send", node |-> to, packet |-> packet, count |-> 0]
Await(node, count) == [kind |-> "await", node |-> node, packet |-> NoPacket, count |-> count]

TestFragment == MsgFragment(<<1, 11, 12, 21>>, 1, 42, 3)
TestAck == Ack(<<21, 12, 11, 1>>, 1, 42, 3)
TestFloodRequest == FloodRequest(<<>>, 0, 42, 7, Client, <<<<Client, "Client">>>>)

\* A scenario: the links between the drones, the outside nodes registered on
\* a drone as <<drone, node>>, the drop rate of each drone, the test's script.
Scenario(name, links, outside, rates, script) ==
    [name |-> name, links |-> links, outside |-> outside, rates |-> rates, script |-> script]

NoLoss(links) == [d \in NodesOf(links) |-> 0]

Scenarios ==
    \* generic_chain_fragment_drop_2, with any drop rate on the relaying drone
    {Scenario("chain_drop", Chain, {<<11, Client>>, <<12, Server>>},
              (11 :> p @@ 12 :> 100), <<Send(11, TestFragment)>>) : p \in PdrValues}
    \* round_trip_message
      \cup {Scenario("round_trip", Chain, {<<11, Client>>, <<12, Server>>}, NoLoss(Chain),
                     <<Send(11, TestFragment), Await(Server, 1),
                       Send(12, TestAck), Await(Client, 1)>>)}
    \* return_flood_response_with_one_neighbour, multiple_flood_requests_encounter,
    \* flood_request_on_big_network
      \cup {Scenario("flood", links, {<<11, Client>>}, NoLoss(links),
                     <<Send(11, TestFloodRequest)>>) : links \in FloodTopologies}
    \* a flood whose client was not registered on the drone it sends to
      \cup {Scenario("stray_flood", links, {}, NoLoss(links),
                     <<Send(11, TestFloodRequest)>>) : links \in {{}, Chain}}

\* The Peer Table of drone d once the scenario's AddSender commands are handled.
PeersOf(sc, d) ==
    {n \in NodesOf(sc.links) : Link(d, n) \in sc.links /\ n # d}
      \cup {o[2] : o \in {q \in sc.outside : q[1] = d}}

\* RustDrone::new for every drone, then run() up to the first packet.
NetInit ==
    /\ scenario \in Scenarios
    /\ fleet = [d \in NodesOf(scenario.links) |->
                  [pdr |-> scenario.rates[d],
                   packet_send |-> [n \in PeersOf(scenario, d) |-> n],
                   seen_flood_requests |-> {},
                   state |-> "Running"]]
    /\ inbox = [n \in NodesOf(scenario.links) \cup {Client, Server} |-> <<>>]
    /\ to_send = scenario.script
    /\ pdr = 0
    /\ packet_send = EmptyMap
    /\ seen_flood_requests = {}
    /\ state = "Created"
    /\ pc = "init"
    /\ dead_ports = {}
    /\ command_queue = <<>>
    /\ packet_queue = <<>>
    /\ cmd_senders = TRUE
    /\ pkt_senders = TRUE
    /\ last = NoStep
    /\ sent = <<>>
    /\ events = <<>>

\* Orders in which iterating a HashMap with the keys S can visit them.
OrdersOf(S) ==
    {o \in [1..Cardinality(S) -> S] : \A i, j \in DOMAIN o : i # j => o[i] # o[j]}

NetOrdersFor(table, packet) ==
    IF packet.pack_type = "FloodRequest" THEN OrdersOf(DOMAIN table) ELSE {<<>>}

\* The channels whose receiver is gone: those of the drones whose thread panicked.
Stopped == {d \in DOMAIN fleet : fleet[d].state = "Panicked"}

\* The result of handle_packet(packet) on drone d.
NetHandled(d, packet, r, ord) ==
    handle_packet([packet_send |-> fleet[d].packet_send,
                   seen_flood_requests |-> fleet[d].seen_flood_requests,
                   sent |-> <<>>, events |-> <<>>, panic |-> FALSE, nacks |-> <<>>,
                   lost |-> <<>>],
                  [id |-> d, pdr |-> fleet[d].pdr, dead |-> Stopped, r |-> r, ord |-> ord],
                  fleet[d].state, packet)

\* try_send of each packet of out on its channel, in order.
RECURSIVE Enqueue(_, _)
Enqueue(boxes, out) ==
    IF out = <<>> THEN boxes
    ELSE Enqueue([boxes EXCEPT ![Head(out).port] = Append(@, Head(out).packet)], Tail(out))

\* Drone d takes the next packet of its channel (first loop of run(), second
\* arm: the command input is empty once the drone is wired).
NetDispatch(d) ==
    /\ d \in DOMAIN fleet
    /\ fleet[d].state = "Running"
    /\ inbox[d] # <<>>
    /\ \E r \in SamplesFor(Head(inbox[d])),
          ord \in NetOrdersFor(fleet[d].packet_send, Head(inbox[d])) :
         \E x \in {NetHandled(d, Head(inbox[d]), r, ord)} :
            /\ fleet' = [fleet EXCEPT ![d] =
                            [@ EXCEPT !.packet_send = x.packet_send,
                                      !.seen_flood_requests = x.seen_flood_requests,
                                      !.state = IF x.panic THEN "Panicked" ELSE @]]
            /\ inbox' = Enqueue([inbox EXCEPT ![d] = Tail(@)], x.sent)
            /\ last' = [op |-> "packet", packet |-> Head(inbox[d]), command |-> NoCommand,
                        state |-> fleet[d].state, pdr |-> fleet[d].pdr,
                        packet_send |-> fleet[d].packet_send,
                        seen_flood_requests |-> fleet[d].seen_flood_requests,
                        nacks |-> x.nacks, lost |-> x.lost, id |-> d]
            /\ sent' = x.sent
            /\ events' = x.events
    /\ UNCHANGED <<drone, pc, dead_ports, channels, scenario, to_send>>

\* send_packet_to_drone
TesterSend ==
    /\ to_send # <<>>
    /\ Head(to_send).kind = "send"
    /\ inbox' = [inbox EXCEPT ![Head(to_send).node] = Append(@, Head(to_send).packet)]
    /\ to_send' = Tail(to_send)
    /\ UNCHANGED <<drone, pc, dead_ports, channels, last, sent, events, scenario, fleet>>

\* recv_timeout on the channel of the client or the server: the test goes on
\* once the packet it waits for has arrived.
TesterAwait ==
    /\ to_send # <<>>
    /\ Head(to_send).kind = "await"
    /\ Len(inbox[Head(to_send).node]) >= Head(to_send).count
    /\ to_send' = Tail(to_send)
    /\ UNCHANGED <<drone, pc, dead_ports, channels, last, sent, events, scenario, fleet, inbox>>

TesterStep == TesterSend \/ TesterAwait

NetNext ==
    \/ TesterSend
    \/ TesterAwait
    \/ \E d \in Drones : NetDispatch(d)

NetSpec == NetInit /\ [][NetNext]_vars

\* The threads are scheduled: the test's thread takes its next step when it
\* can, and while some drone has a packet waiting, some drone dispatches.
FairNetSpec ==
    NetSpec /\ WF_vars(TesterStep) /\ WF_vars(\E d \in Drones : NetDispatch(d))

\* parse_network_from_flood_responses: for every node of a path trace, the
\* nodes next to it in some trace.
TraceNodes(flood_responses) ==
    UNION {{flood_responses[k].path_trace[i][1] : i \in DOMAIN flood_responses[k].path_trace}
             : k \in DOMAIN flood_responses}

parse_network_from_flood_responses(flood_responses) ==
    [node \in TraceNodes(flood_responses) |->
        {hop \in TraceNodes(flood_responses) :
            \E k \in DOMAIN flood_responses :
                LET path_trace == flood_responses[k].path_trace
                IN  \E i \in DOMAIN path_trace :
                        /\ path_trace[i][1] = node
                        /\ \/ i # Len(path_trace) /\ path_trace[i + 1][1] = hop
                           \/ i # 1 /\ path_trace[i - 1][1] = hop}]

\* Nothing is left to do: the test has sent everything and every channel of a
\* running drone is empty.
Quiescent ==
    /\ to_send = <<>>
    /\ \A d \in DOMAIN fleet : fleet[d].state = "Running" => inbox[d] = <<>>

\* ============================================================== properties
\* What the properties read of the latest dispatch.  The expected packets are
\* written out here field by field, independently of the dispatch operators.
Received == last.packet
Hops == Received.routing_header.hops
Idx == Received.routing_header.hop_index

\* The latest step was handle_packet, entered with lifecycle state st.
PacketStep(st) == last.op = "packet" /\ last.state = st

IsRouted == Received.pack_type \in {"MsgFragment", "Ack", "Nack", "FloodResponse"}

\* hops[hop_index] is this drone.
AtSelf == Idx < Len(Hops) /\ Hops[Idx + 1] = SelfId

NextExists == Idx + 1 < Len(Hops)
NextId == Hops[Idx + 2]
PrevExists == Idx >= 1 /\ Idx <= Len(Hops)
PrevId == Hops[Idx]

\* Membership in the Peer Table as it was when the packet was received.
WasPeer(n) == n \in DOMAIN last.packet_send
PortOf(n) == last.packet_send[n]
Live(n) == WasPeer(n) /\ PortOf(n) \notin dead_ports

NextPeer == NextExists /\ WasPeer(NextId)
PrevLive == PrevExists /\ Live(PrevId)

\* The received packet with hop_index incremented by one.
Forwarded == [Received EXCEPT !.routing_header = [hops |-> Hops, hop_index |-> Idx + 1]]

\* The Nack for the received packet as its first recipient gets it: hops are
\* the reverse of hops[0..=hop_index], hop_index is 1.
ExpectedNack(kind, node) ==
    [pack_type |-> "Nack",
     routing_header |-> [hops |-> [i \in 1..(Idx + 1) |-> Hops[Idx + 2 - i]], hop_index |-> 1],
     session_id |-> Received.session_id,
     fragment_index |-> IF Received.pack_type = "MsgFragment"
                        THEN Received.fragment_index ELSE 0,
     nack_type |-> [kind |-> kind, node |-> node],
     flood_id |-> 0, initiator_id |-> 0,
     path_trace |-> <<>>]

On(port, packet) == [port |-> port, packet |-> packet]

SentPackets == {sent[i].packet : i \in DOMAIN sent}
SentOn(port) == {sent[i].packet : i \in {j \in DOMAIN sent : sent[j].port = port}}
SentNacks == {m \in SentPackets : m.pack_type = "Nack"}
Emitted == {events[i] : i \in DOMAIN events}

\* ------------------------------------------------------------------- C1
C1_Case ==
    /\ PacketStep("Running")
    /\ Received.pack_type = "MsgFragment"
    /\ AtSelf
    /\ NextPeer
    /\ pdr = 0

C1_Success ==
    /\ sent = <<On(PortOf(NextId), Forwarded)>>
    /\ SentNacks = {}
    /\ [kind |-> "PacketSent", packet |-> Forwarded] \in Emitted

\* C1 as stated: in Running, a Fragment at its current hop whose next hop is in
\* the Peer Table is, with pdr = 0.0, always forwarded: exactly one packet is
\* enqueued on the next hop's port, the input with hop_index + 1, no Nack is
\* produced and PacketSent(forwarded packet) is emitted.
C1_ForwardsWhenInPeerTable == C1_Case => C1_Success

\* C1 amended: the same, for a next hop whose port is still connected (its
\* receiver has not been dropped); the dispatch then emits exactly that one event.
C1_ForwardsWhenConnected ==
    (C1_Case /\ Live(NextId)) =>
        (C1_Success /\ events = <<[kind |-> "PacketSent", packet |-> Forwarded]>>)

C1_Witness == C1_Case /\ Live(NextId) /\ Len(sent) = 1 /\ PrevExists

\* ------------------------------------------------------------------- C2
C2_Case ==
    /\ PacketStep("Running")
    /\ Received.pack_type = "MsgFragment"
    /\ AtSelf
    /\ NextPeer
    /\ pdr = 100

C2_NotForwarded ==
    /\ \A m \in SentPackets : m.pack_type # "MsgFragment"
    /\ Len(events) >= 1
    /\ events[1] = [kind |-> "PacketDropped", packet |-> Received]

\* C2 as stated: in Running with pdr = 1.0 (valid current hop, next hop in the
\* Peer Table) the Fragment is never enqueued, a Nack{Dropped} is returned to
\* the previous hop hops[hop_index-1], and PacketDropped(original) is emitted.
C2_DroppedNackReturned ==
    (C2_Case /\ PrevExists /\ PrevId \notin {SelfId, NextId}) =>
        /\ C2_NotForwarded
        /\ WasPeer(PrevId)
        /\ On(PortOf(PrevId), ExpectedNack("Dropped", 0)) \in {sent[i] : i \in DOMAIN sent}

\* C2 amended: the Fragment is never enqueued and PacketDropped(original) is
\* emitted; the Nack{Dropped} is returned to the previous hop when that hop
\* exists and is in the Peer Table with a connected port, and otherwise
\* nothing is enqueued on any port.
C2_DroppedNackWhenReachable ==
    C2_Case =>
        /\ C2_NotForwarded
        /\ sent = IF PrevLive
                  THEN <<On(PortOf(PrevId), ExpectedNack("Dropped", 0))>>
                  ELSE <<>>

C2_Witness == C2_Case /\ PrevLive /\ Len(sent) = 1

\* ------------------------------------------------------------------- C3
\* C3: a received Nack never makes the drone create a Nack: whatever the
\* header and the lifecycle state, the only Nack the dispatch may enqueue is
\* the received one, forwarded.
C3_NoNackForNack ==
    (last.op = "packet" /\ Received.pack_type = "Nack") => SentNacks \subseteq {Forwarded}

\* ------------------------------------------------------------------- C4
\* C4: while Crashing a received Fragment (here one at its current hop, with a
\* connected next hop) is answered with Nack ErrorInRouting(self) and nothing
\* else: it is not enqueued on any port, no Dropped Nack is made, and at most
\* one packet leaves the drone.
C4_CrashingFragmentNotRouted ==
    (PacketStep("Crashing") /\ Received.pack_type = "MsgFragment" /\ AtSelf
       /\ NextExists /\ Live(NextId)) =>
        /\ \A m \in SentPackets : m.pack_type = "Nack" /\ m.nack_type.kind = "ErrorInRouting"
                                    /\ m.nack_type.node = SelfId
        /\ Len(sent) <= 1
        /\ PrevLive => Len(sent) = 1

\* ------------------------------------------------------------------- C5
\* C5: once Crash has been dispatched, run() eventually returns, with no
\* condition on the sender handles of the packet input.
C5_CrashEventuallyReturns == (pc = "crash_loop") ~> (pc = "done")

C7_NoPanic == pc # "panic"

\* ------------------------------------------------------------------- C8
\* C8: when a packet that is not dropped is forwarded to a next hop whose port
\* is disconnected, Nack ErrorInRouting(next hop) is enqueued on the port of
\* the previous hop, with hops the reverse of the received hops[0..=hop_index].
C8_DisconnectedLikeUnknown ==
    (/\ last.op = "packet"
     /\ Received.pack_type \in {"Ack", "Nack", "FloodResponse"}
     /\ AtSelf
     /\ NextPeer
     /\ ~Live(NextId)
     /\ PrevLive
     /\ PortOf(PrevId) # PortOf(NextId)) =>
        ExpectedNack("ErrorInRouting", NextId) \in SentOn(PortOf(PrevId))

\* ------------------------------------------------------------------- C9
C9_Case ==
    /\ PacketStep("Running")
    /\ IsRouted
    /\ AtSelf
    /\ NextExists
    /\ ~WasPeer(NextId)

\* The Nack ErrorInRouting(next hop) is the one packet sent, to the previous
\* hop, when that hop is a connected peer; otherwise nothing is sent.
C9_NackTowardPrevious ==
    sent = IF PrevLive
           THEN <<On(PortOf(PrevId), ExpectedNack("ErrorInRouting", NextId))>>
           ELSE <<>>

\* C9 as stated: in Running, a routed packet at its current hop whose next hop
\* is not in the Peer Table is not forwarded, Nack ErrorInRouting(next hop) is
\* sent toward the previous hop, and the Peer Table is left unchanged.
C9_UnknownNextHopKeepsTable ==
    C9_Case => (C9_NackTowardPrevious /\ packet_send = last.packet_send)

\* C9 amended: the Peer Table is left unchanged, except that the entry of the
\* previous hop is removed when the Nack cannot be delivered because that
\* hop's port is disconnected.
C9_UnknownNextHop ==
    C9_Case =>
        /\ C9_NackTowardPrevious
        /\ packet_send = IF PrevExists /\ WasPeer(PrevId) /\ ~Live(PrevId)
                         THEN [n \in (DOMAIN last.packet_send) \ {PrevId} |-> PortOf(n)]
                         ELSE last.packet_send

C9_Witness == C9_Case /\ PrevLive /\ Len(sent) = 1 /\ Received.pack_type = "Ack"

\* ------------------------------------------------------------------ C10
C10_Case ==
    /\ PacketStep("Running")
    /\ IsRouted
    /\ AtSelf
    /\ ~NextExists

\* C10: in Running, a routed packet at its current hop with no next hop: a
\* Nack is absorbed (nothing enqueued, no event, drone state unchanged); any
\* other packet makes Nack DestinationIsDrone the one packet sent, to the
\* previous hop when that hop is a connected peer (nothing is sent otherwise).
C10_NoNextHop ==
    C10_Case =>
        IF Received.pack_type = "Nack"
        THEN /\ sent = <<>>
             /\ events = <<>>
             /\ packet_send = last.packet_send
             /\ seen_flood_requests = last.seen_flood_requests
             /\ pdr = last.pdr
             /\ state = last.state
             /\ pc = "loop"
        ELSE sent = IF PrevLive
                    THEN <<On(PortOf(PrevId), ExpectedNack("DestinationIsDrone", 0))>>
                    ELSE <<>>

C10_Witness ==
    /\ C10_Case
    /\ Received.pack_type = "MsgFragment"
    /\ PrevLive
    /\ sent = <<On(PortOf(PrevId), ExpectedNack("DestinationIsDrone", 0))>>

\* ------------------------------------------------------------------ C11
C11_Case ==
    /\ PacketStep("Running")
    /\ IsRouted
    /\ Idx < Len(Hops)
    /\ Hops[Idx + 1] # SelfId

\* The Nack UnexpectedRecipient(self) as its first recipient gets it: the
\* return path starts at this drone and goes on with hops[hop_index-1], ..., hops[0].
C11_Nack ==
    [pack_type |-> "Nack",
     routing_header |->
        [hops |-> [i \in 1..(Idx + 1) |-> IF i = 1 THEN SelfId ELSE Hops[Idx + 2 - i]],
         hop_index |-> 1],
     session_id |-> Received.session_id,
     fragment_index |-> IF Received.pack_type = "MsgFragment"
                        THEN Received.fragment_index ELSE 0,
     nack_type |-> [kind |-> "UnexpectedRecipient", node |-> SelfId],
     flood_id |-> 0, initiator_id |-> 0,
     path_trace |-> <<>>]

\* C11: in Running, a routed packet whose hops[hop_index] exists and is not
\* this drone is never forwarded and never dropped by simulated loss (no
\* Dropped Nack, no PacketDropped of the packet); the one packet sent is Nack
\* UnexpectedRecipient(self), to hops[hop_index-1] when that hop is a
\* connected peer (nothing is sent otherwise).
C11_WrongCurrentHop ==
    C11_Case =>
        /\ sent = IF PrevLive THEN <<On(PortOf(PrevId), C11_Nack)>> ELSE <<>>
        /\ \A i \in DOMAIN events :
             events[i].packet \notin {Received, Forwarded}
        /\ \A m \in SentPackets : m.nack_type.kind # "Dropped"

C11_Witness ==
    /\ C11_Case
    /\ Received.pack_type = "MsgFragment"
    /\ NextPeer
    /\ pdr = 100
    /\ PrevLive
    /\ sent = <<On(PortOf(PrevId), C11_Nack)>>

\* ------------------------------------------------------------------ C12
C12_Case ==
    /\ last.op = "packet"
    /\ Received.pack_type \in {"Ack", "Nack", "FloodResponse"}
    /\ AtSelf
    /\ NextPeer

C12_Forwarded ==
    /\ sent = <<On(PortOf(NextId), Forwarded)>>
    /\ \A i \in DOMAIN events : events[i].kind # "PacketDropped"

\* C12 as stated: for every pdr, an Ack, Nack or FloodResponse at its current
\* hop whose next hop is in the Peer Table is always forwarded: it is the one
\* packet enqueued, on the next hop's port, with hop_index + 1; no Dropped
\* Nack and no PacketDropped event is produced.
C12_NeverLostWhenInPeerTable == C12_Case => C12_Forwarded

\* C12 amended: the same, for a next hop whose port is still connected; the
\* one event emitted is then PacketSent(forwarded packet).
C12_NeverLostWhenConnected ==
    (C12_Case /\ Live(NextId)) =>
        (C12_Forwarded /\ events = <<[kind |-> "PacketSent", packet |-> Forwarded]>>)

C12_Witness ==
    /\ C12_Case
    /\ Live(NextId)
    /\ pdr = 100
    /\ Received.pack_type = "Nack"
    /\ sent = <<On(PortOf(NextId), Forwarded)>>

\* ------------------------------------------------------------------ C13
\* The Nacks a dispatch made itself: every Nack sent but a received Nack forwarded.
C13_Synthesized ==
    {m \in SentNacks : ~(Received.pack_type = "Nack" /\ m = Forwarded)}

\* The calls of return_nack of the latest dispatch: c.packet is the offending
\* packet P it was given, c.nack_type the kind, c.nack the Nack it built.
C13_Calls == {last.nacks[i] : i \in DOMAIN last.nacks}

\* The reverse of P.hops[0..=P.hop_index].
C13_ReversedPrefix(P) ==
    [i \in 1..(P.routing_header.hop_index + 1) |->
        P.routing_header.hops[P.routing_header.hop_index + 2 - i]]

\* The Nack for P of the given kind, as a recipient gets it.
C13_Arrives(P, kind) ==
    [pack_type |-> "Nack",
     routing_header |-> [hops |-> C13_ReversedPrefix(P), hop_index |-> 1],
     session_id |-> P.session_id,
     fragment_index |-> IF P.pack_type = "MsgFragment" THEN P.fragment_index ELSE 0,
     nack_type |-> kind,
     flood_id |-> 0, initiator_id |-> 0,
     path_trace |-> <<>>]

\* C13: every Nack synthesized for an offending packet P and a kind (the
\* arguments of return_nack) has hops = reverse of P.hops[0..=P.hop_index],
\* fragment_index = P's for a Fragment and 0 otherwise, the given kind and P's
\* session_id; it is handed to the router with hop_index 0, so that every
\* synthesized Nack that leaves the drone is one of them with hop_index 1.
C13_NackOfTravelledPrefix ==
    last.op = "packet" =>
        /\ \A c \in C13_Calls :
             c.nack = [C13_Arrives(c.packet, c.nack_type) EXCEPT !.routing_header.hop_index = 0]
        /\ \A m \in C13_Synthesized :
             \E c \in C13_Calls : m = C13_Arrives(c.packet, c.nack_type)

C13_Witness ==
    /\ PacketStep("Running")
    /\ Received.pack_type = "MsgFragment"
    /\ AtSelf
    /\ Idx = 1
    /\ Len(Hops) = 3
    /\ C13_Calls = {[packet |-> Received, nack_type |-> [kind |-> "Dropped", node |-> 0],
                     nack |-> [C13_Arrives(Received, [kind |-> "Dropped", node |-> 0])
                                 EXCEPT !.routing_header.hop_index = 0]]}
    /\ sent = <<On(PortOf(PrevId), C13_Arrives(Received, [kind |-> "Dropped", node |-> 0]))>>

\* ------------------------------------------------------------------ C14
\* The route of the test's Fragment and of the Nack that answers it.
C14_Route == <<1, 11, 12, 21>>

\* Nack{fragment_index, Dropped} from the k-th drone of the route, as the
\* origin gets it: hops = reverse of route[0..=k], hop_index = k.
C14_NackFrom(k) ==
    [pack_type |-> "Nack",
     routing_header |-> [hops |-> [i \in 1..(k + 1) |-> C14_Route[k + 2 - i]], hop_index |-> k],
     session_id |-> 42,
     fragment_index |-> 3,
     nack_type |-> [kind |-> "Dropped", node |-> 0],
     flood_id |-> 0, initiator_id |-> 0,
     path_trace |-> <<>>]

\* C14: in the chain 1 - 11 - 12 - 21 with drone 12 at pdr 1.0, the Fragment
\* with hops [1,11,12,21], hop_index 1 sent to 11 is dropped by the k-th drone
\* and client 1 eventually holds exactly one packet, Nack{fragment_index,
\* Dropped} with hops = reverse of the route up to that drone and hop_index k,
\* whatever the pdr of the relaying drone 11; when 11 forwards for sure (pdr 0)
\* it is hops [12,11,1], hop_index 2.  The server receives nothing.
C14_NackTravelsBack ==
    <>[](scenario.name = "chain_drop" =>
           /\ inbox[Client] \in {<<C14_NackFrom(1)>>, <<C14_NackFrom(2)>>}
           /\ scenario.rates[11] = 0 => inbox[Client] = <<C14_NackFrom(2)>>
           /\ inbox[Server] = <<>>)

C14_Witness ==
    /\ scenario.name = "chain_drop"
    /\ scenario.rates[11] = 50
    /\ fleet[12].pdr = 100
    /\ Quiescent
    /\ inbox[Client] = <<C14_NackFrom(2)>>

\* ------------------------------------------------------------------ C15
C15_FragmentAtServer ==
    [pack_type |-> "MsgFragment",
     routing_header |-> [hops |-> <<1, 11, 12, 21>>, hop_index |-> 3],
     session_id |-> 42, fragment_index |-> 3,
     nack_type |-> [kind |-> "None", node |-> 0], flood_id |-> 0, initiator_id |-> 0, path_trace |-> <<>>]

C15_AckAtClient ==
    [pack_type |-> "Ack",
     routing_header |-> [hops |-> <<21, 12, 11, 1>>, hop_index |-> 3],
     session_id |-> 42, fragment_index |-> 3,
     nack_type |-> [kind |-> "None", node |-> 0], flood_id |-> 0, initiator_id |-> 0, path_trace |-> <<>>]

\* C15: with 11 and 12 at pdr 0.0 wired 1 - 11 - 12 - 21, the Fragment with
\* hops [1,11,12,21], hop_index 1 sent to 11 eventually reaches 21 with
\* hop_index 3 and otherwise unchanged, and the Ack with hops [21,12,11,1],
\* hop_index 1 then sent to 12 eventually reaches client 1 with hop_index 3
\* and otherwise unchanged: each of the two relaying drones adds one to
\* hop_index.  Nothing else reaches either of them.
C15_RoundTrip ==
    <>[](scenario.name = "round_trip" =>
           /\ inbox[Server] = <<C15_FragmentAtServer>>
           /\ inbox[Client] = <<C15_AckAtClient>>)

C15_Witness ==
    /\ scenario.name = "round_trip"
    /\ Quiescent
    /\ inbox[Server] = <<C15_FragmentAtServer>>
    /\ inbox[Client] = <<C15_AckAtClient>>

\* ------------------------------------------------------------------ C16
\* The latest dispatch was a first-seen FloodRequest at a drone of the network
\* with at most one peer.
C16_Case ==
    /\ scenario.name # "none"
    /\ last.op = "packet"
    /\ Received.pack_type = "FloodRequest"
    /\ Received.path_trace # <<>>
    /\ Received.flood_id \notin last.seen_flood_requests
    /\ Cardinality(DOMAIN last.packet_send) <= 1

C16_Predecessor == Received.path_trace[Len(Received.path_trace)][1]

\* The FloodResponse of the drone that dispatched, as it leaves it.
C16_Answer ==
    [pack_type |-> "FloodResponse",
     routing_header |->
        [hops |-> [i \in 1..(Len(Received.path_trace) + 1) |->
                     IF i = 1 THEN last.id
                     ELSE Received.path_trace[Len(Received.path_trace) + 2 - i][1]],
         hop_index |-> 1],
     session_id |-> Received.session_id,
     fragment_index |-> 0,
     nack_type |-> [kind |-> "None", node |-> 0],
     flood_id |-> Received.flood_id, initiator_id |-> 0,
     path_trace |-> Append(Received.path_trace, <<last.id, "Drone">>)]

\* The one FloodResponse of the dead-end flood, as client 1 gets it.
C16_ResponseAtClient ==
    [pack_type |-> "FloodResponse",
     routing_header |-> [hops |-> <<12, 11, 1>>, hop_index |-> 2],
     session_id |-> 42,
     fragment_index |-> 0,
     nack_type |-> [kind |-> "None", node |-> 0],
     flood_id |-> 7, initiator_id |-> 0,
     path_trace |-> <<<<1, "Client">>, <<11, "Drone">>, <<12, "Drone">>>>]

C16_DeadEnd == scenario.name = "flood" /\ scenario.links = Chain

\* With 11 and 12 linked and client 1 attached to 11, the client ends up with
\* exactly that one packet.
C16_OneResponse == <>[](C16_DeadEnd => inbox[Client] = <<C16_ResponseAtClient>>)

\* C16 as stated: the dead-end flood gives the client exactly one
\* FloodResponse, path_trace [(1,Client),(11,Drone),(12,Drone)], hops [12,11,1],
\* hop_index 2, with the request's flood_id and session_id; and a first-seen
\* request at a node with at most one peer is not forwarded and is answered to
\* the predecessor.
C16_DeadEndAnswered ==
    /\ C16_OneResponse
    /\ [](C16_Case => sent = <<On(C16_Predecessor, C16_Answer)>>)

\* C16 amended: the same, the answer being sent when the predecessor is that
\* one peer and its port is connected; otherwise nothing is sent at all.
C16_DeadEndAnsweredToPeer ==
    /\ C16_OneResponse
    /\ [](C16_Case =>
            sent = IF /\ C16_Predecessor \in DOMAIN last.packet_send
                      /\ last.packet_send[C16_Predecessor] \notin Stopped
                   THEN <<On(last.packet_send[C16_Predecessor], C16_Answer)>>
                   ELSE <<>>)

C16_Witness ==
    /\ C16_DeadEnd
    /\ C16_Case
    /\ last.id = 12
    /\ sent = <<On(11, C16_Answer)>>

\* ------------------------------------------------------------------ C17
C17_Diamond == scenario.name = "flood" /\ scenario.links = Diamond

\* C17: in the diamond (11 linked to 12 and 13, both linked to 14, client 1
\* attached to 11), whatever the order in which the four drones dispatch, the
\* client never holds more than two packets, all of them FloodResponses with
\* the request's flood_id, and eventually holds exactly two.
C17_TwoResponses ==
    /\ [](C17_Diamond =>
            /\ Len(inbox[Client]) <= 2
            /\ \A k \in DOMAIN inbox[Client] :
                 /\ inbox[Client][k].pack_type = "FloodResponse"
                 /\ inbox[Client][k].flood_id = 7)
    /\ <>[](C17_Diamond => Len(inbox[Client]) = 2)

C17_Witness ==
    /\ C17_Diamond
    /\ Quiescent
    /\ Len(inbox[Client]) = 2
    /\ inbox[Client][1].path_trace[3][1] = 13

\* ------------------------------------------------------------------ C18
\* The neighbours of node n in the scenario's topology: the drones linked to
\* it, and for drone 11 the client attached to it.
C18_Actual(n) ==
    IF n = 1 THEN {11}
    ELSE {m \in {11, 12, 13, 14} : {n, m} \in scenario.links /\ m # n}
           \cup (IF n = 11 THEN {1} ELSE {})

C18_Discovered == parse_network_from_flood_responses(inbox[Client])

\* C18: for every connected topology of the drones with symmetric Peer Tables
\* and client 1 attached to drone 11, whatever the interleaving, a flood
\* eventually quiesces with only FloodResponses at the client, and the
\* adjacency read from their path traces then gives every drone, and the
\* client, exactly its neighbours in the topology.
C18_DiscoveryCompleteAndSound ==
    <>[](scenario.name = "flood" =>
           /\ Quiescent
           /\ \A k \in DOMAIN inbox[Client] : inbox[Client][k].pack_type = "FloodResponse"
           /\ DOMAIN C18_Discovered = {1} \cup DOMAIN fleet
           /\ \A n \in DOMAIN C18_Discovered : C18_Discovered[n] = C18_Actual(n))

C18_Witness ==
    /\ scenario.name = "flood"
    /\ Cardinality(scenario.links) = 6
    /\ Quiescent
    /\ DOMAIN C18_Discovered = {1, 11, 12, 13, 14}
    /\ \A n \in DOMAIN C18_Discovered : C18_Discovered[n] = C18_Actual(n)

\* ------------------------------------------------------------------ C19
C19_Case ==
    /\ PacketStep("Crashing")
    /\ Received.pack_type \in {"Ack", "Nack", "FloodResponse"}

\* What handle_packet does with the received packet in state Running, from the
\* fields the drone had when it received it.
C19_InRunning ==
    handle_packet([packet_send |-> last.packet_send,
                   seen_flood_requests |-> last.seen_flood_requests,
                   sent |-> <<>>, events |-> <<>>, panic |-> FALSE, nacks |-> <<>>,
                   lost |-> <<>>],
                  [id |-> SelfId, pdr |-> last.pdr, dead |-> dead_ports, r |-> 0, ord |-> <<>>],
                  "Running", Received)

C20_Case ==
    /\ PacketStep("Crashing")
    /\ Received.pack_type = "FloodRequest"

\* C20: while Crashing a received FloodRequest is dropped silently: nothing is
\* enqueued on any port, no event is emitted, the Seen-Flood Set and the Peer
\* Table are unchanged, and the drone goes on servicing its packet input.
C20_CrashingDropsFloodRequest ==
    C20_Case =>
        /\ sent = <<>>
        /\ events = <<>>
        /\ seen_flood_requests = last.seen_flood_requests
        /\ packet_send = last.packet_send
        /\ pc = "crash_loop"

C20_Witness ==
    /\ C20_Case
    /\ Received.path_trace # <<>>
    /\ Received.flood_id \notin seen_flood_requests
    /\ Cardinality(DOMAIN packet_send) = 2
    /\ dead_ports = {}

\* ------------------------------------------------------------------ C21
\* q2 is q1 with one message appended.
C21_Appended(q1, q2) == Len(q2) = Len(q1) + 1 /\ SubSeq(q2, 1, Len(q1)) = q1

C22_NoCommandAfterCrash ==
    [][state = "Crashing" =>
         /\ state' = "Crashing"
         /\ pdr' = pdr
         /\ last'.op # "command"
         /\ \/ command_queue' = command_queue
            \/ C21_Appended(command_queue, command_queue')
         /\ packet_send' # packet_send =>
              /\ last'.op = "packet"
              /\ DOMAIN packet_send' \subseteq DOMAIN packet_send
              /\ \A n \in DOMAIN packet_send' : packet_send'[n] = packet_send[n]
              /\ \A n \in (DOMAIN packet_send) \ (DOMAIN packet_send') :
                   packet_send[n] \in dead_ports]_vars

C22_Witness ==
    /\ state = "Crashing"
    /\ last.op = "packet"
    /\ Len(command_queue) = 2
    /\ command_queue[1].cmd = "AddSender"
    /\ command_queue[2].cmd = "SetPacketDropRate"
    /\ command_queue[2].pdr # pdr
    /\ command_queue[1].node \notin DOMAIN packet_send

\* ------------------------------------------------------------------ C23
\* C23: in the first loop, whenever a command is pending when the drone takes
\* a step, that step dispatches the head of the command input and leaves the
\* packet input as it is, whatever packets are pending; when that command is
\* Crash the drone enters the second loop with the backlog still queued, and
\* every packet dispatched there is handled with lifecycle state Crashing.
C23_CommandsFirst ==
    [][/\ (pc = "loop" /\ command_queue # <<>> /\ last'.op # "none") =>
            /\ last'.op = "command"
            /\ last'.command = Head(command_queue)
            /\ command_queue' = Tail(command_queue)
            /\ packet_queue' = packet_queue
            /\ Head(command_queue).cmd = "Crash" => (pc' = "crash_loop" /\ state' = "Crashing")
       /\ (pc = "crash_loop" /\ last'.op = "packet") =>
            (last'.state = "Crashing" /\ last'.packet = Head(packet_queue))]_vars

C23_Witness ==
    /\ last.op = "command"
    /\ last.command.cmd = "Crash"
    /\ last.state = "Running"
    /\ pc = "crash_loop"
    /\ Len(packet_queue) >= 2

\* ------------------------------------------------------------------ C24
\* The Peer Table entries the latest dispatch removed.
C24_Evicted == (DOMAIN last.packet_send) \ (DOMAIN packet_send)

\* The FloodRequest a first-seen request is forwarded as: the trace extended
\* with this drone, an empty routing header.
C24_FloodCopy ==
    [pack_type |-> "FloodRequest",
     routing_header |-> [hops |-> <<>>, hop_index |-> 0],
     session_id |-> Received.session_id,
     fragment_index |-> 0,
     nack_type |-> [kind |-> "None", node |-> 0],
     flood_id |-> Received.flood_id,
     initiator_id |-> Received.initiator_id,
     path_trace |-> Append(Received.path_trace, <<SelfId, "Drone">>)]

\* The deliveries the latest dispatch attempted on a port whose receiver is
\* gone, as <<destination_id, packet>>: the forwarding of a packet that is not
\* subject to loss to its next hop, and the fan-out of a first-seen
\* FloodRequest to the peers other than its sender.
C24_Failed ==
    IF /\ last.op = "packet"
       /\ Received.pack_type \in {"Ack", "Nack", "FloodResponse"}
       /\ AtSelf
       /\ NextPeer
       /\ ~Live(NextId)
    THEN {<<NextId, Forwarded>>}
    ELSE IF /\ PacketStep("Running")
            /\ Received.pack_type = "FloodRequest"
            /\ Received.path_trace # <<>>
            /\ Received.flood_id \notin last.seen_flood_requests
            /\ Cardinality(DOMAIN last.packet_send) > 1
    THEN {<<n, C24_FloodCopy>> :
            n \in {m \in DOMAIN last.packet_send :
                     /\ m # Received.path_trace[Len(Received.path_trace)][1]
                     /\ ~Live(m)}}
    ELSE {}

\* What the drone, as it is now, does with an Ack whose next hop is n.
C24_Later(n) ==
    handle_packet([packet_send |-> packet_send,
                   seen_flood_requests |-> seen_flood_requests,
                   sent |-> <<>>, events |-> <<>>, panic |-> FALSE, nacks |-> <<>>,
                   lost |-> <<>>],
                  [id |-> SelfId, pdr |-> pdr, dead |-> dead_ports, r |-> 0, ord |-> <<>>],
                  state, Ack(<<SelfId, n>>, 0, 42, 3))

\* C24: a delivery to destination_id that fails because the receiver of the
\* port is gone removes destination_id from the Peer Table and emits
\* PacketDropped(undelivered packet); a dispatch leaves every entry it keeps
\* unchanged and removes only entries whose port is disconnected; and a later
\* packet whose next hop is destination_id is answered like one whose next
\* hop is not in the Peer Table (ErrorInRouting(destination_id), not forwarded).
C24_DeadPeerEvicted ==
    /\ last.op = "packet" =>
         /\ \A n \in DOMAIN packet_send :
              n \in DOMAIN last.packet_send /\ packet_send[n] = last.packet_send[n]
         /\ \A n \in C24_Evicted : last.packet_send[n] \in dead_ports
    /\ \A f \in C24_Failed :
         /\ f[1] \in C24_Evicted
         /\ [kind |-> "PacketDropped", packet |-> f[2]] \in Emitted
         /\ pc # "panic"
         /\ \E later \in {C24_Later(f[1])} :
              /\ \A i \in DOMAIN later.sent : later.sent[i].packet.pack_type = "Nack"
              /\ later.nacks # <<>>
              /\ later.nacks[1].nack_type = [kind |-> "ErrorInRouting", node |-> f[1]]

\* ------------------------------------------------------------------ C25
\* What handle_packet does with the received packet when the controller's
\* receiver is alive, from the fields the drone had when it received it.
C25_WithOpenChannel(r, ord) ==
    handle_packet([packet_send |-> last.packet_send,
                   seen_flood_requests |-> last.seen_flood_requests,
                   sent |-> <<>>, events |-> <<>>, panic |-> FALSE, nacks |-> <<>>,
                   lost |-> <<>>],
                  [id |-> SelfId, pdr |-> last.pdr, dead |-> dead_ports \ {ControllerPort},
                   r |-> r, ord |-> ord],
                  last.state, Received)

\* C25: with the telemetry channel closed, a dispatch enqueues the packets,
\* and makes the changes to Peer Table, Seen-Flood Set, drop rate and
\* lifecycle, that it makes with the channel open (for some outcome of the
\* random sample and of the iteration order): every send of an event fails
\* and nothing else differs; no Nack is made that is not made with the channel
\* open, and the loop goes on exactly when it goes on with the channel open.
C25_TelemetryBestEffort ==
    (last.op = "packet" /\ ControllerPort \in dead_ports) =>
        /\ last.lost = events
        /\ pdr = last.pdr
        /\ state = last.state
        /\ \E r \in SamplesFor(Received), ord \in OrdersFor(Received) :
             \E open \in {C25_WithOpenChannel(r, ord)} :
                /\ sent = open.sent
                /\ events = open.events
                /\ packet_send = open.packet_send
                /\ seen_flood_requests = open.seen_flood_requests
                /\ last.nacks = open.nacks
                /\ open.lost = <<>>
                /\ pc = IF open.panic THEN "panic"
                        ELSE IF last.state = "Running" THEN "loop" ELSE "crash_loop"

C25_Witness ==
    /\ PacketStep("Running")
    /\ ControllerPort \in dead_ports
    /\ Received.pack_type = "MsgFragment"
    /\ Len(events) = 2
    /\ events[1].kind = "PacketDropped"
    /\ events[2].kind = "PacketSent"
    /\ last.lost = events
    /\ Len(sent) = 1
    /\ pc = "loop"

\* ------------------------------------------------------------------ C26
\* C26: with the telemetry channel open, the PacketSent events of a dispatch
\* are, in order, exactly the packets it enqueued on ports, each as enqueued
\* (a forwarded packet with its hop_index incremented, a synthesized Nack, a
\* forwarded FloodRequest, a FloodResponse): one event per enqueued packet,
\* none for a packet that was not enqueued, and no send of an event fails.
C26_PacketSentMatches ==
    (last.op = "packet" /\ ControllerPort \notin dead_ports) =>
        /\ last.lost = <<>>
        /\ SelectSeq(events, LAMBDA ev : ev.kind = "PacketSent")
             = [i \in DOMAIN sent |-> [kind |-> "PacketSent", packet |-> sent[i].packet]]

C26_Witness ==
    /\ PacketStep("Running")
    /\ ControllerPort \notin dead_ports
    /\ Received.pack_type = "FloodRequest"
    /\ Len(sent) = 2
    /\ events = <<[kind |-> "PacketSent", packet |-> sent[1].packet],
                  [kind |-> "PacketSent", packet |-> sent[2].packet]>>
    /\ sent[1].packet.pack_type = "FloodRequest"

\* ------------------------------------------------------------------ C27
C27_Case ==
    /\ last.op = "command"
    /\ last.command.cmd = "RemoveSender"
    /\ last.state = "Running"

\* C27: RemoveSender(id) in Running removes the entry of id and keeps every
\* other entry; when id is absent the Peer Table is unchanged; in both cases
\* drop rate, Seen-Flood Set and lifecycle are unchanged, nothing is sent or
\* emitted, and the drone stays in its first loop, where it takes commands
\* and packets.
C27_RemoveSender ==
    C27_Case =>
        /\ packet_send = [n \in (DOMAIN last.packet_send) \ {last.command.node}
                            |-> last.packet_send[n]]
        /\ last.command.node \notin DOMAIN last.packet_send => packet_send = last.packet_send
        /\ pdr = last.pdr
        /\ seen_flood_requests = last.seen_flood_requests
        /\ state = "Running"
        /\ pc = "loop"
        /\ sent = <<>>
        /\ events = <<>>

C27_Witness ==
    /\ C27_Case
    /\ last.command.node \notin DOMAIN last.packet_send
    /\ DOMAIN packet_send # {}
    /\ pc = "loop"

\* ------------------------------------------------------------------ C28
C28_Case ==
    /\ last.op = "command"
    /\ last.command.cmd = "AddSender"
    /\ last.state = "Running"

\* The Peer Table t with the entry of the command's id set to its port.
C28_With(t) ==
    [n \in (DOMAIN t) \cup {last.command.node} |->
        IF n = last.command.node THEN last.command.port ELSE t[n]]

\* What the drone, as it is now, does with an Ack whose next hop is the
\* command's id.
C28_Later ==
    handle_packet([packet_send |-> packet_send,
                   seen_flood_requests |-> seen_flood_requests,
                   sent |-> <<>>, events |-> <<>>, panic |-> FALSE, nacks |-> <<>>,
                   lost |-> <<>>],
                  [id |-> SelfId, pdr |-> pdr, dead |-> dead_ports, r |-> 0, ord |-> <<>>],
                  state, Ack(<<SelfId, last.command.node>>, 0, 42, 3))

\* C28: AddSender(id, port) in Running sets the entry of id to port, whether
\* or not id had one, and leaves every other entry, the drop rate, the
\* Seen-Flood Set and the lifecycle unchanged; applying it to the resulting
\* table gives that table again; and a packet whose next hop is id is then
\* enqueued on that port (when its receiver is alive).
C28_AddSender ==
    C28_Case =>
        /\ packet_send = C28_With(last.packet_send)
        /\ C28_With(packet_send) = packet_send
        /\ pdr = last.pdr
        /\ seen_flood_requests = last.seen_flood_requests
        /\ state = "Running"
        /\ pc = "loop"
        /\ sent = <<>>
        /\ events = <<>>
        /\ last.command.port \notin dead_ports =>
             C28_Later.sent =
                <<[port |-> last.command.port,
                   packet |-> [pack_type |-> "Ack",
                               routing_header |-> [hops |-> <<SelfId, last.command.node>>,
                                                   hop_index |-> 1],
                               session_id |-> 42, fragment_index |-> 3,
                               nack_type |-> [kind |-> "None", node |-> 0],
                               flood_id |-> 0, initiator_id |-> 0, path_trace |-> <<>>]]>>

C28_Witness ==
    /\ C28_Case
    /\ last.command.node \in DOMAIN last.packet_send
    /\ last.packet_send[last.command.node] # last.command.port
    /\ last.command.port \notin dead_ports
    /\ last.packet_send[last.command.node] \in dead_ports
    /\ Cardinality(DOMAIN packet_send) = 2
    /\ Len(C28_Later.sent) = 1

\* ------------------------------------------------------------------ C29
C29_Case ==
    /\ last.op = "command"
    /\ last.command.cmd = "SetPacketDropRate"
    /\ last.state = "Running"

\* SetPacketDropRate(p) makes p the drop rate, whatever p is, and changes
\* nothing else.
C29_Overwrites ==
    C29_Case =>
        /\ pdr = last.command.pdr
        /\ packet_send = last.packet_send
        /\ seen_flood_requests = last.seen_flood_requests
        /\ state = "Running"
        /\ pc = "loop"
        /\ sent = <<>>
        /\ events = <<>>

\* A Fragment at its current hop, with its next hop in the Peer Table,
\* dispatched in Running under the drop rate as it is now.
C29_Fragment ==
    /\ PacketStep("Running")
    /\ Received.pack_type = "MsgFragment"
    /\ AtSelf
    /\ NextPeer

\* C29 as stated: SetPacketDropRate(p) overwrites the drop rate with p
\* unconditionally and changes nothing else, and with the rate at 1.0 every
\* Fragment is answered with a Dropped Nack to the previous hop.
C29_EveryFragmentNacked ==
    /\ C29_Overwrites
    /\ (C29_Fragment /\ pdr = 100 /\ PrevExists /\ PrevId \notin {SelfId, NextId}) =>
         /\ WasPeer(PrevId)
         /\ sent = <<On(PortOf(PrevId), ExpectedNack("Dropped", 0))>>

\* C29 amended: the same overwrite; the rate in force governs every Fragment
\* dispatched afterwards: at 1.0 or above the Fragment is never enqueued,
\* PacketDropped(original) is emitted, and the Dropped Nack is sent to the
\* previous hop when that hop is in the Peer Table with a connected port
\* (nothing is sent otherwise); at 0.0 the Fragment is forwarded whenever the
\* next hop's port is connected.
C29_RateGoverns ==
    /\ C29_Overwrites
    /\ (C29_Fragment /\ pdr >= 100) =>
         /\ events # <<>>
         /\ events[1] = [kind |-> "PacketDropped", packet |-> Received]
         /\ sent = IF PrevLive
                   THEN <<On(PortOf(PrevId), ExpectedNack("Dropped", 0))>>
                   ELSE <<>>
    /\ (C29_Fragment /\ pdr <= 0 /\ Live(NextId)) =>
         sent = <<On(PortOf(NextId), Forwarded)>>

C29_Witness ==
    /\ C29_Fragment
    /\ pdr = 150
    /\ PrevLive
    /\ sent = <<On(PortOf(PrevId), ExpectedNack("Dropped", 0))>>

\* ------------------------------------------------------------------ C30
C30_Case ==
    /\ PacketStep("Running")
    /\ Received.pack_type = "FloodRequest"
    /\ Received.path_trace # <<>>
    /\ Received.flood_id \in last.seen_flood_requests

C30_Predecessor == Received.path_trace[Len(Received.path_trace)][1]

\* The FloodResponse for the received request: the trace extended with this
\* drone, its node ids in reverse order as hops, hop_index 1.
C30_Response ==
    [pack_type |-> "FloodResponse",
     routing_header |->
        [hops |-> [i \in 1..(Len(Received.path_trace) + 1) |->
                     IF i = 1 THEN SelfId
                     ELSE Received.path_trace[Len(Received.path_trace) + 2 - i][1]],
         hop_index |-> 1],
     session_id |-> Received.session_id,
     fragment_index |-> 0,
     nack_type |-> [kind |-> "None", node |-> 0],
     flood_id |-> Received.flood_id, initiator_id |-> 0,
     path_trace |-> Append(Received.path_trace, <<SelfId, "Drone">>)]

C30_NotForwarded ==
    /\ \A m \in SentPackets : m.pack_type # "FloodRequest"
    /\ seen_flood_requests = last.seen_flood_requests

\* C30 as stated: on a FloodRequest whose flood_id is in the Seen-Flood Set a
\* Running drone forwards no FloodRequest and sends exactly one FloodResponse
\* to the predecessor: trace extended with (self, Drone), hops the trace's ids
\* reversed, hop_index 1, flood_id and session_id of the request.
C30_SeenAnswered ==
    C30_Case =>
        /\ C30_NotForwarded
        /\ WasPeer(C30_Predecessor)
        /\ sent = <<On(PortOf(C30_Predecessor), C30_Response)>>

\* C30 amended: that one FloodResponse is sent when the predecessor is in the
\* Peer Table with a connected port; otherwise nothing is sent at all.
C30_SeenAnsweredToPeer ==
    C30_Case =>
        /\ C30_NotForwarded
        /\ sent = IF Live(C30_Predecessor)
                  THEN <<On(PortOf(C30_Predecessor), C30_Response)>>
                  ELSE <<>>

C30_Witness ==
    /\ C30_Case
    /\ Len(Received.path_trace) = 2
    /\ Cardinality(DOMAIN last.packet_send) = 2
    /\ Live(C30_Predecessor)
    /\ sent = <<On(PortOf(C30_Predecessor), C30_Response)>>

\* ------------------------------------------------------------------ C31
\* A FloodRequest with a flood_id not yet seen, received in Running by a drone
\* with more than one peer.
C31_Case ==
    /\ PacketStep("Running")
    /\ Received.pack_type = "FloodRequest"
    /\ Received.path_trace # <<>>
    /\ Received.flood_id \notin last.seen_flood_requests
    /\ Cardinality(DOMAIN last.packet_send) > 1

\* The peers other than the predecessor.
C31_Targets == (DOMAIN last.packet_send) \ {C30_Predecessor}

\* The copy of the request: trace extended with (self, Drone), empty hops,
\* hop_index 0, flood_id, initiator_id and session_id as received.
C31_Copy ==
    [Received EXCEPT !.routing_header = [hops |-> <<>>, hop_index |-> 0],
                     !.path_trace = Append(@, <<SelfId, "Drone">>)]

\* The flood_id is recorded and one copy is enqueued for each peer other than
\* the predecessor, on that peer's port, in some order; nothing else is sent
\* (so nothing for the predecessor, and no FloodResponse).
C31_OneCopyEach ==
    /\ seen_flood_requests = last.seen_flood_requests \cup {Received.flood_id}
    /\ \E o \in OrdersOf(C31_Targets) :
         sent = [i \in 1..Cardinality(C31_Targets) |-> On(PortOf(o[i]), C31_Copy)]
    /\ pc = "loop"

C32_FannedOut(f) ==
    /\ last.op = "packet"
    /\ Received.pack_type = "FloodRequest"
    /\ Received.flood_id = f
    /\ \E m \in SentPackets : m.pack_type = "FloodRequest"

\* A flood_id once recorded is never removed.
C32_NeverRemoved == [][seen_flood_requests \subseteq seen_flood_requests']_vars

\* A FloodRequest whose flood_id is recorded results in no FloodRequest: what
\* it results in is the FloodResponse to its predecessor, or nothing.
C32_SeenOnlyAnswered ==
    (/\ last.op = "packet"
     /\ Received.pack_type = "FloodRequest"
     /\ Received.flood_id \in last.seen_flood_requests)
        => /\ \/ sent = <<>>
              \/ /\ WasPeer(C30_Predecessor)
                 /\ sent = <<On(PortOf(C30_Predecessor), C30_Response)>>
           /\ seen_flood_requests = last.seen_flood_requests

\* C32: over any sequence of packets and commands, for every flood_id, once
\* a dispatch has fanned a FloodRequest of that flood out, no later dispatch
\* does; the flood_id is recorded by that dispatch and never removed, and every
\* later FloodRequest of the flood results in a FloodResponse only.
C32_AtMostOnce ==
    /\ \A f \in {7, 8} : [](C32_FannedOut(f) => [](~C32_FannedOut(f) => []~C32_FannedOut(f)))
    /\ [](\A f \in {7, 8} : C32_FannedOut(f) => f \in seen_flood_requests \ last.seen_flood_requests)
    /\ C32_NeverRemoved
    /\ []C32_SeenOnlyAnswered

\* With floods 7 and 8 both recorded, a FloodRequest of flood 7 arrives at a
\* drone with two peers and is answered with the FloodResponse alone.
C32_Witness ==
    /\ PacketStep("Running")
    /\ Received.pack_type = "FloodRequest"
    /\ Received.flood_id = 7
    /\ last.seen_flood_requests = {7, 8}
    /\ Cardinality(DOMAIN last.packet_send) = 2
    /\ sent = <<On(PortOf(C30_Predecessor), C30_Response)>>

\* ------------------------------------------------------------------ C33
\* A single FloodRequest injected at drone 11 of a topology of running drones.
C33_Flood == scenario.name \in {"flood", "stray_flood"}

\* The packets waiting in the channel of node n.
C33_Waiting(n) == IF n \in DOMAIN inbox THEN Len(inbox[n]) ELSE 0

\* The packets in the network: waiting at a drone, or arrived at the client.
C33_InNetwork ==
    C33_Waiting(Client) + C33_Waiting(11) + C33_Waiting(12) + C33_Waiting(13) + C33_Waiting(14)

\* C33: in every connected topology of the drones, cyclic ones included, and
\* under every fair interleaving, the flood of a single injected FloodRequest
\* consists of FloodRequests and FloodResponses of that flood only, never has
\* more than one packet per direction of a link, plus the injected one, in the
\* network, stops no drone, and eventually quiesces for good: nothing is left
\* to send and the channel of every drone is empty.
C33_LoopPrevention ==
    /\ [](C33_Flood =>
            /\ C33_InNetwork <= 2 * Cardinality(scenario.links) + 1
            /\ \A n \in DOMAIN inbox : \A k \in DOMAIN inbox[n] :
                  /\ inbox[n][k].pack_type \in {"FloodRequest", "FloodResponse"}
                  /\ inbox[n][k].flood_id = 7
            /\ \A d \in DOMAIN fleet : fleet[d].state = "Running")
    /\ <>[](C33_Flood => to_send = <<>> /\ \A d \in DOMAIN fleet : inbox[d] = <<>>)

\* The triangle 11 - 12 - 13 - 11 has quiesced: every drone has recorded the
\* flood and the client holds the responses.
C33_Witness ==
    /\ scenario.name = "flood"
    /\ scenario.links = {Link(11, 12), Link(12, 13), Link(11, 13)}
    /\ to_send = <<>>
    /\ \A d \in DOMAIN fleet : inbox[d] = <<>> /\ fleet[d].seen_flood_requests = {7}
    /\ Len(inbox[Client]) = 2

\* ------------------------------------------------------------------ C34
\* The packets the latest dispatch made itself and enqueued, by their place
\* in sent: every Nack but a received Nack forwarded, and the FloodResponse
\* to a FloodRequest.
C34_Made ==
    {i \in DOMAIN sent :
        \/ /\ sent[i].packet.pack_type = "Nack"
           /\ ~(Received.pack_type = "Nack" /\ sent[i].packet = Forwarded)
        \/ /\ sent[i].packet.pack_type = "FloodResponse"
           /\ Received.pack_type = "FloodRequest"}

\* C34: every Nack and every FloodResponse a drone makes leaves it with
\* hops[0] its own id, hop_index 1 and hops[1] the peer on whose port it is
\* enqueued, in Running and in Crashing, whatever the offending packet.
C34_LeavesFromSelf ==
    last.op = "packet" =>
        \A i \in C34_Made :
            LET h == sent[i].packet.routing_header IN
            /\ h.hop_index = 1
            /\ Len(h.hops) >= 2
            /\ h.hops[1] = SelfId
            /\ WasPeer(h.hops[2])
            /\ sent[i].port = PortOf(h.hops[2])

\* ------------------------------------------------------------------ C35
\* The routed packets the latest dispatch enqueued, by their place in sent.
C35_Routed ==
    {i \in DOMAIN sent :
        sent[i].packet.pack_type \in {"MsgFragment", "Ack", "Nack", "FloodResponse"}}

\* What a running node n does with packet m when it receives it.
C35_AtRecipient(n, m) ==
    handle_packet([packet_send |-> EmptyMap, seen_flood_requests |-> {},
                   sent |-> <<>>, events |-> <<>>, panic |-> FALSE, nacks |-> <<>>,
                   lost |-> <<>>],
                  [id |-> n, pdr |-> 0, dead |-> {}, r |-> 0, ord |-> <<>>],
                  "Running", m)

\* C35: every routed packet a drone enqueues is enqueued on the port its Peer
\* Table holds for the peer N = hops[hop_index] of the packet as sent, so N,
\* receiving it, finds itself as the current hop and makes no
\* UnexpectedRecipient Nack.
C35_InFlightRoute ==
    last.op = "packet" =>
        \A i \in C35_Routed :
            LET h == sent[i].packet.routing_header IN
            /\ h.hop_index < Len(h.hops)
            /\ WasPeer(h.hops[h.hop_index + 1])
            /\ sent[i].port = PortOf(h.hops[h.hop_index + 1])
            /\ \E at \in {C35_AtRecipient(h.hops[h.hop_index + 1], sent[i].packet)} :
                  \A k \in DOMAIN at.nacks : at.nacks[k].nack_type.kind # "UnexpectedRecipient"

\* A Fragment at the wrong hop received while Crashing: both Nacks it causes
\* are enqueued for the peer at their hop_index.
C35_Witness ==
    /\ PacketStep("Crashing")
    /\ Received.pack_type = "MsgFragment"
    /\ ~AtSelf
    /\ Len(sent) = 2
    /\ C35_Routed = {1, 2}
    /\ sent[1].packet.routing_header.hops[1] # SelfId

\* ------------------------------------------------------------------ C36
\* The Lifecycle State: the DroneState field, and Terminated once run() has
\* returned.
C36_Lifecycle == IF pc = "done" THEN "Terminated" ELSE state

C36_Rank(l) ==
    CASE l = "Created" -> 0
      [] l = "Running" -> 1
      [] l = "Crashing" -> 2
      [] l = "Terminated" -> 3

C37_Degenerate ==
    {c \in C13_Calls : c.packet.routing_header.hop_index = 0}

\* C37: the Nack made for an offending packet with hop_index 0 has the single
\* hop hops[0] and is discarded: it is enqueued on no port and no Nack is made
\* for it.  While Running, a dispatch whose offending packet has hop_index 0
\* makes that one Nack only, enqueues nothing, and leaves Peer Table,
\* Seen-Flood Set, drop rate and lifecycle as they were, and the drone in its
\* loop.
C37_DegenerateNackDiscarded ==
    last.op = "packet" =>
        /\ \A c \in C37_Degenerate :
              /\ c.nack.routing_header = [hops |-> <<c.packet.routing_header.hops[1]>>,
                                          hop_index |-> 0]
              /\ \A m \in SentNacks : m.routing_header.hops # c.nack.routing_header.hops
              /\ \A d \in C13_Calls : d.packet # c.nack
        /\ (/\ last.state = "Running"
            /\ last.nacks # <<>>
            /\ last.nacks[1].packet.routing_header.hop_index = 0) =>
              /\ Len(last.nacks) = 1
              /\ last.nacks[1].nack.routing_header.hops = <<SelfId>>
              /\ sent = <<>>
              /\ packet_send = last.packet_send
              /\ seen_flood_requests = last.seen_flood_requests
              /\ pdr = last.pdr
              /\ state = last.state
              /\ pc = "loop"

\* An Ack at its first hop whose next hop is not a peer, at a drone with a
\* connected peer: the ErrorInRouting Nack has nowhere to go.
C37_Witness ==
    /\ PacketStep("Running")
    /\ Received.pack_type = "Ack"
    /\ Idx = 0
    /\ Len(Hops) = 3
    /\ AtSelf
    /\ ~WasPeer(NextId)
    /\ \E n \in DOMAIN last.packet_send : Live(n)
    /\ Len(last.nacks) = 1
    /\ last.nacks[1].nack_type.kind = "ErrorInRouting"
    /\ sent = <<>>

\* ------------------------------------------------------------------ C38
\* C38: when every command Sender has been released while the drone is in its
\* first loop, a packet waiting in the packet input is eventually dispatched.
C38_PacketsStillServed ==
    (pc = "loop" /\ ~cmd_senders /\ command_queue = <<>> /\ packet_queue # <<>>)
        ~> (last.op = "packet")

\* ------------------------------------------------------------------ C39
\* A routed packet whose hop_index lies outside hops, received in Running.
C39_Case ==
    /\ PacketStep("Running")
    /\ IsRouted
    /\ Idx >= Len(Hops)

\* C39: such a packet is discarded: nothing is enqueued, no Nack is made, no
\* event is emitted, Peer Table, Seen-Flood Set, drop rate and lifecycle are
\* unchanged, and the drone stays in its loop.
C39_NoCurrentHopDiscarded ==
    C39_Case =>
        /\ sent = <<>>
        /\ last.nacks = <<>>
        /\ events = <<>>
        /\ packet_send = last.packet_send
        /\ seen_flood_requests = last.seen_flood_requests
        /\ pdr = last.pdr
        /\ state = "Running"
        /\ pc = "loop"

\* A Fragment carrying a route with hop_index one past its end, at a drone
\* whose peers on that route are connected.
C39_Witness ==
    /\ C39_Case
    /\ Received.pack_type = "MsgFragment"
    /\ Hops = <<1, 11, 12>>
    /\ Idx = 3
    /\ Live(1)
    /\ Live(12)
    /\ last.pdr = 100
    /\ pc = "loop"

\* ------------------------------------------------------------------ C40
\* A first-seen FloodRequest received in Running by a drone with at most one
\* peer, from a predecessor that is not in its Peer Table.
C40_Case ==
    /\ PacketStep("Running")
    /\ Received.pack_type = "FloodRequest"
    /\ Received.path_trace # <<>>
    /\ Received.flood_id \notin last.seen_flood_requests
    /\ Cardinality(DOMAIN last.packet_send) <= 1
    /\ ~WasPeer(C30_Predecessor)

\* A later copy of the same flood, as it arrives directly from neighbour n.
C40_CopyFrom(n) ==
    [Received EXCEPT !.path_trace = <<<<n, IF n = 1 THEN "Client" ELSE "Drone">>>>]

\* What the drone does with that copy, with the Seen-Flood Set it has now,
\* once both neighbours are its peers on connected ports.
C40_Later(n) ==
    handle_packet([packet_send |-> (1 :> "ch1" @@ 12 :> "ch12"),
                   seen_flood_requests |-> seen_flood_requests,
                   sent |-> <<>>, events |-> <<>>, panic |-> FALSE, nacks |-> <<>>,
                   lost |-> <<>>],
                  [id |-> SelfId, pdr |-> pdr, dead |-> {}, r |-> 0, ord |-> <<1, 12>>],
                  state, C40_CopyFrom(n))

\* C40: such a request results in no packet and no event, and leaves the Peer
\* Table as it was, yet its flood_id is recorded: a later copy of the flood
\* from a connected peer is answered with the FloodResponse of a seen flood
\* and is not fanned out to the other peer.
C40_RecordedThoughUnanswered ==
    C40_Case =>
        /\ sent = <<>>
        /\ events = <<>>
        /\ packet_send = last.packet_send
        /\ seen_flood_requests = last.seen_flood_requests \cup {Received.flood_id}
        /\ pc = "loop"
        /\ \A n \in Neighbours :
              C40_Later(n).sent =
                 <<[port |-> (1 :> "ch1" @@ 12 :> "ch12")[n],
                    packet |->
                       [pack_type |-> "FloodResponse",
                        routing_header |-> [hops |-> <<SelfId, n>>, hop_index |-> 1],
                        session_id |-> Received.session_id,
                        fragment_index |-> 0,
                        nack_type |-> [kind |-> "None", node |-> 0],
                        flood_id |-> Received.flood_id, initiator_id |-> 0,
                        path_trace |-> <<<<n, IF n = 1 THEN "Client" ELSE "Drone">>,
                                         <<SelfId, "Drone">>>>]]>>

\* The request of client 1 arrives at a drone whose only peer is 12, on a
\* connected port.
C40_Witness ==
    /\ C40_Case
    /\ DOMAIN last.packet_send = {12}
    /\ Live(12)
    /\ C30_Predecessor = 1
    /\ Len(Received.path_trace) = 1
    /\ sent = <<>>
    /\ seen_flood_requests = {Received.flood_id}

====
